---- MODULE Spec2Model ----
(***************************************************************************)
(* A model of the aeserialization codecs: the RLP codec (src/src/rlp.rs)   *)
(* and the FATE value codec (src/crates/aebytecode/src/data).  The codecs  *)
(* are pure functions; they are modelled as operators, and a small state   *)
(* machine picks an input, applies one codec call per step and records     *)
(* what the call returned.  A Rust panic (index or slice out of bounds,    *)
(* ilog of zero, a failed expect) is the outcome "Panic", distinct from    *)
(* Ok and from every Err value.                                            *)
(***************************************************************************)
EXTENDS Integers, Sequences, FiniteSets, TLC

VARIABLES
    pc,     \* the step the caller is at
    item,   \* the item (or value) the caller serialized, None for a buffer from outside
    wire,   \* what serialize returned for it
    tail,   \* the bytes that follow the encoding in the buffer
    input,  \* the buffer handed to the decoder
    res,    \* what the decoder returned
    reenc   \* what serialize returned for the decoded item

vars == <<pc, item, wire, tail, input, res, reenc>>

(***************************************************************************)
(* Framing constants of the RLP codec.                                     *)
(***************************************************************************)
UNTAGGED_SIZE_LIMIT == 55
UNTAGGED_LIMIT == 127
BYTE_ARRAY_OFFSET == 128
LIST_OFFSET == 192
BYTE_ARRAY_UNTAGGED_LIMIT == BYTE_ARRAY_OFFSET + UNTAGGED_SIZE_LIMIT
BYTE_ARRAY_TAGGED_OFFSET == BYTE_ARRAY_UNTAGGED_LIMIT + 1
BYTE_ARRAY_LIMIT == LIST_OFFSET - 1
LIST_UNTAGGED_LIMIT == LIST_OFFSET + UNTAGGED_SIZE_LIMIT
LIST_TAGGED_OFFSET == LIST_UNTAGGED_LIMIT + 1

\* size_of::<usize>() on the 64-bit targets the crate is built for.
USIZE_BYTES == 8

(***************************************************************************)
(* Bounds of the model.                                                    *)
(***************************************************************************)
\* Longest byte array enumerated exhaustively over LeafAlphabet.
MaxLeafLen == 2
\* Longest list enumerated exhaustively over its candidate children.
MaxListLen == 2
\* Deepest nesting of lists.
MaxDepth == 2
\* Longest raw input enumerated exhaustively over RawAlphabet.
MaxRawLen == 3

(***************************************************************************)
(* Values.                                                                 *)
(***************************************************************************)
None == [tag |-> "None"]
Panic == [tag |-> "Panic"]

\* enum RlpItem { ByteArray(Bytes), List(Vec<RlpItem>) }
ByteArray(bs) == [t |-> "ByteArray", bytes |-> bs]
List(its) == [t |-> "List", items |-> its]

\* vec![v; n]
Rep(v, n) == [i \in 1..n |-> v]

\* bytes[a..b] and bytes[a..] of a Rust slice (zero-based, b exclusive).
Slice(bytes, a, b) == SubSeq(bytes, a + 1, b)
SliceFrom(bytes, a) == SubSeq(bytes, a + 1, Len(bytes))

IsBytes(s) == \A i \in 1..Len(s) : s[i] \in 0..255

\* enum DecodingErr
Trailing(inp, undecoded, decoded) ==
    [kind |-> "Trailing", input |-> inp, undecoded |-> undecoded, decoded |-> decoded]
LeadingZerosInSize(position) == [kind |-> "LeadingZerosInSize", position |-> position]
SizeOverflow(position, expected, actual) ==
    [kind |-> "SizeOverflow", position |-> position, expected |-> expected, actual |-> actual]
Empty == [kind |-> "Empty"]

Err(e) == [tag |-> "Err", err |-> e]
\* Ok((item, rest)) of try_deserialize, Ok(item) of deserialize, Ok(items) of decode_list_at
OkRest(it, rest) == [tag |-> "Ok", item |-> it, rest |-> rest]
OkItem(it) == [tag |-> "Ok", item |-> it]
OkItems(its) == [tag |-> "Ok", items |-> its]

(***************************************************************************)
(* Size fields.                                                            *)
(***************************************************************************)
\* usize::ilog for a positive argument (ilog panics on zero).
RECURSIVE ilog(_, _)
ilog(n, base) == IF n < base THEN 0 ELSE 1 + ilog(n \div base, base)

\* The last k bytes of the big-endian representation of n.
RECURSIVE to_be_bytes(_, _)
to_be_bytes(n, k) == IF k = 0 THEN <<>> ELSE Append(to_be_bytes(n \div 256, k - 1), n % 256)

\* usize::from_be_bytes
RECURSIVE from_be_bytes(_)
from_be_bytes(bytes) ==
    IF bytes = <<>> THEN 0
    ELSE from_be_bytes(SubSeq(bytes, 1, Len(bytes) - 1)) * 256 + bytes[Len(bytes)]

\* fn usize_to_min_be_bytes(n: usize) -> Bytes, for n > 0; n = 0 panics in ilog.
usize_to_min_be_bytes_panics(n) == n = 0
usize_to_min_be_bytes(n) ==
    LET byte_len == ilog(n, 256) + 1
        bytes == to_be_bytes(n, USIZE_BYTES)
    IN  Slice(bytes, Len(bytes) - byte_len, Len(bytes))

\* usize::from_le_bytes
RECURSIVE from_le_bytes(_)
from_le_bytes(bytes) ==
    IF bytes = <<>> THEN 0 ELSE bytes[1] + 256 * from_le_bytes(Tail(bytes))

bytes_to_size_little_endian(bytes) ==
    from_le_bytes(bytes \o Rep(0, USIZE_BYTES - Len(bytes)))

\* fn bytes_to_size(bytes: Bytes) -> usize: left-pad with zeros to 8 bytes.
bytes_to_size(bytes) ==
    from_be_bytes(Rep(0, USIZE_BYTES - Len(bytes)) \o bytes)

(***************************************************************************)
(* RlpItem::serialize                                                      *)
(***************************************************************************)
add_size_off_by_one(offset, bytes) ==
    IF Len(bytes) < UNTAGGED_SIZE_LIMIT
    THEN <<offset + Len(bytes)>> \o bytes
    ELSE LET size_bytes == usize_to_min_be_bytes(Len(bytes))
             tagged_size == UNTAGGED_SIZE_LIMIT + offset + Len(size_bytes)
         IN  <<tagged_size>> \o size_bytes \o bytes

add_size(offset, bytes) ==
    IF Len(bytes) <= UNTAGGED_SIZE_LIMIT
    THEN <<offset + Len(bytes)>> \o bytes
    ELSE LET size_bytes == usize_to_min_be_bytes(Len(bytes))
             tagged_size == UNTAGGED_SIZE_LIMIT + offset + Len(size_bytes)
         IN  <<tagged_size>> \o size_bytes \o bytes

RECURSIVE serialize(_)
RECURSIVE serialize_items(_)
\* items.iter().flat_map(|x| x.serialize()).collect()
serialize_items(its) ==
    IF its = <<>> THEN <<>> ELSE serialize(Head(its)) \o serialize_items(Tail(its))

serialize(x) ==
    IF x.t = "ByteArray"
    THEN IF Len(x.bytes) = 1 /\ x.bytes[1] <= UNTAGGED_LIMIT
         THEN x.bytes
         ELSE add_size(BYTE_ARRAY_OFFSET, x.bytes)
    ELSE add_size(LIST_OFFSET, serialize_items(x.items))

(***************************************************************************)
(* RlpItem::try_decode_at, decode_list_at, try_deserialize, deserialize    *)
(***************************************************************************)
RECURSIVE try_decode_at(_, _)
RECURSIVE decode_list_at(_, _)

decode_list_at(bytes, at) ==
    IF bytes = <<>> THEN OkItems(<<>>)
    ELSE LET r == try_decode_at(bytes, at)
         IN  IF r.tag # "Ok" THEN r
             ELSE LET more == decode_list_at(r.rest, at + ((Len(bytes) + 1) - Len(r.rest)))
                  IN  IF more.tag # "Ok" THEN more
                      ELSE OkItems(<<r.item>> \o more.items)

\* The list arms hand the decoded items and the rest to the caller.
list_result(items, rest) ==
    IF items.tag # "Ok" THEN items ELSE OkRest(List(items.items), rest)

decode_tagged_byte_array(bytes, at) ==
    LET len_bytes == bytes[1] - BYTE_ARRAY_UNTAGGED_LIMIT
    IN  IF Len(bytes) < len_bytes + 1
        THEN Err(SizeOverflow(at, len_bytes, Len(bytes)))
        ELSE IF bytes[2] = 0
        THEN Err(LeadingZerosInSize(at + 1))
        ELSE LET len == bytes_to_size(Slice(bytes, 1, len_bytes + 1))
             IN  IF len_bytes + len + 1 > Len(bytes)
                 THEN Panic
                 ELSE OkRest(ByteArray(Slice(bytes, len_bytes + 1, len_bytes + len + 1)),
                             SliceFrom(bytes, len_bytes + len + 1))

decode_tagged_list_no_zero_check(bytes, at) ==
    LET len_bytes == bytes[1] - LIST_UNTAGGED_LIMIT
    IN  IF Len(bytes) < 2
        THEN Panic
        ELSE IF len_bytes + 1 > Len(bytes)
        THEN Panic
        ELSE LET len == bytes_to_size(Slice(bytes, 1, len_bytes + 1))
             IN  IF 1 + len_bytes + len > Len(bytes)
                 THEN Panic
                 ELSE list_result(
                        decode_list_at(Slice(bytes, 1 + len_bytes, 1 + len_bytes + len), at + 1),
                        SliceFrom(bytes, 1 + len_bytes + len))

decode_tagged_list(bytes, at) ==
    LET len_bytes == bytes[1] - LIST_UNTAGGED_LIMIT
    IN  IF Len(bytes) < 2
        THEN Panic
        ELSE IF bytes[2] = 0
        THEN Err(LeadingZerosInSize(at + 1))
        ELSE IF len_bytes + 1 > Len(bytes)
        THEN Panic
        ELSE LET len == bytes_to_size(Slice(bytes, 1, len_bytes + 1))
             IN  IF 1 + len_bytes + len > Len(bytes)
                 THEN Panic
                 ELSE list_result(
                        decode_list_at(Slice(bytes, 1 + len_bytes, 1 + len_bytes + len), at + 1),
                        SliceFrom(bytes, 1 + len_bytes + len))

try_decode_at(bytes, at) ==
    IF bytes = <<>> THEN Panic
    ELSE IF bytes[1] <= UNTAGGED_LIMIT
    THEN OkRest(ByteArray(Slice(bytes, 0, 1)), SliceFrom(bytes, 1))
    ELSE IF bytes[1] <= BYTE_ARRAY_UNTAGGED_LIMIT
    THEN LET len == bytes[1] - BYTE_ARRAY_OFFSET
         IN  IF Len(bytes) < len + 1
             THEN Err(SizeOverflow(at, len, Len(bytes)))
             ELSE OkRest(ByteArray(Slice(bytes, 1, len + 1)), SliceFrom(bytes, len + 1))
    ELSE IF bytes[1] <= BYTE_ARRAY_LIMIT
    THEN decode_tagged_byte_array(bytes, at)
    ELSE IF bytes[1] <= LIST_UNTAGGED_LIMIT
    THEN LET len == bytes[1] - LIST_OFFSET
         IN  IF len + 1 > Len(bytes)
             THEN Panic
             ELSE list_result(decode_list_at(Slice(bytes, 1, len + 1), at + 1),
                              SliceFrom(bytes, len + 1))
    ELSE decode_tagged_list(bytes, at)

try_deserialize(bytes) == try_decode_at(bytes, 0)

deserialize_keeps_trailing(bytes) ==
    IF bytes = <<>> THEN Err(Empty)
    ELSE LET r == try_deserialize(bytes)
         IN  IF r.tag # "Ok" THEN r ELSE OkItem(r.item)

deserialize(bytes) ==
    IF bytes = <<>> THEN Err(Empty)
    ELSE LET r == try_deserialize(bytes)
         IN  IF r.tag # "Ok" THEN r
             ELSE IF r.rest = <<>> THEN OkItem(r.item)
             ELSE Err(Trailing(bytes, r.rest, r.item))

(***************************************************************************)
(* Inputs of the RLP codec.                                                *)
(***************************************************************************)
SeqsUpTo(S, n) == UNION {[1..k -> S] : k \in 0..n}

\* Byte values on both sides of the single-byte limit.
LeafAlphabet == {0, UNTAGGED_LIMIT, BYTE_ARRAY_OFFSET}
\* Payload lengths on both sides of the short/long switch and of a two-byte size.
ThresholdLens == {UNTAGGED_SIZE_LIMIT, UNTAGGED_SIZE_LIMIT + 1, 255, 256}
FillBytes == {0, 200}

LeafItems ==
    {ByteArray(s) : s \in SeqsUpTo(LeafAlphabet, MaxLeafLen)}
    \cup {ByteArray(Rep(v, n)) : v \in FillBytes, n \in ThresholdLens}

KidLeaves ==
    {ByteArray(<<>>), ByteArray(<<1>>), ByteArray(<<BYTE_ARRAY_OFFSET>>),
     ByteArray(Rep(7, UNTAGGED_SIZE_LIMIT + 1))}

\* Candidate children of a list of depth d + 1.
RECURSIVE Kids(_)
Kids(d) ==
    IF d = 0 THEN KidLeaves
    ELSE KidLeaves \cup {List(<<>>)} \cup {List(<<k>>) : k \in Kids(d - 1)}

\* Children whose encodings put a list payload on both sides of the short/long
\* switch and of a two-byte size.
BigKids ==
    {ByteArray(Rep(7, n)) :
       n \in {UNTAGGED_SIZE_LIMIT - 2, UNTAGGED_SIZE_LIMIT - 1, UNTAGGED_SIZE_LIMIT, 252, 253}}

ListsOfDepth(d) ==
    {List(s) : s \in SeqsUpTo(Kids(d - 1), MaxListLen)}
    \cup {List(<<k>>) : k \in BigKids}
    \cup {List(<<k, k>>) : k \in BigKids}

RlpItems == LeafItems \cup UNION {ListsOfDepth(d) : d \in 1..MaxDepth}

\* Bytes that follow an encoding in the caller's buffer.
Tails == {<<>>, <<0>>, <<BYTE_ARRAY_OFFSET>>, <<LIST_OFFSET + 1, 5>>, <<255>>}

\* Tag bytes at the edges of the five tag ranges, and small payload bytes.
RawAlphabet ==
    {0, 1, UNTAGGED_LIMIT,
     BYTE_ARRAY_OFFSET, BYTE_ARRAY_OFFSET + 1, BYTE_ARRAY_OFFSET + 2, BYTE_ARRAY_UNTAGGED_LIMIT,
     BYTE_ARRAY_TAGGED_OFFSET, BYTE_ARRAY_TAGGED_OFFSET + 1, BYTE_ARRAY_LIMIT,
     LIST_OFFSET, LIST_OFFSET + 1, LIST_OFFSET + 2, LIST_UNTAGGED_LIMIT,
     LIST_TAGGED_OFFSET, LIST_TAGGED_OFFSET + 1, 255}

TaggedTags == (BYTE_ARRAY_TAGGED_OFFSET..BYTE_ARRAY_LIMIT) \cup (LIST_TAGGED_OFFSET..255)

\* The width of the size field a tagged-length tag announces.
SizeFieldWidth(tg) ==
    IF tg <= BYTE_ARRAY_LIMIT THEN tg - BYTE_ARRAY_UNTAGGED_LIMIT ELSE tg - LIST_UNTAGGED_LIMIT

\* One item of m bytes in all: a single byte, or a byte array with its header.
ItemOfLen(m) ==
    IF m = 0 THEN <<>>
    ELSE IF m = 1 THEN <<7>>
    ELSE IF m <= UNTAGGED_SIZE_LIMIT + 1 THEN <<BYTE_ARRAY_OFFSET + (m - 1)>> \o Rep(7, m - 1)
    ELSE <<BYTE_ARRAY_TAGGED_OFFSET, m - 2>> \o Rep(7, m - 2)

\* What follows the header of a raw input: any bytes for a byte array, one item
\* for a list.
PayloadOfLen(tg, m) == IF tg <= BYTE_ARRAY_LIMIT THEN Rep(7, m) ELSE ItemOfLen(m)

RawInputs ==
    SeqsUpTo(RawAlphabet, MaxRawLen)
    \* a one-byte size field and a payload one short of, equal to, one beyond it
    \cup {<<tg, n>> \o PayloadOfLen(tg, m) :
            tg \in {BYTE_ARRAY_TAGGED_OFFSET, LIST_TAGGED_OFFSET},
            n \in {1, UNTAGGED_SIZE_LIMIT, UNTAGGED_SIZE_LIMIT + 1},
            m \in {UNTAGGED_SIZE_LIMIT - 1, UNTAGGED_SIZE_LIMIT,
                   UNTAGGED_SIZE_LIMIT + 1, UNTAGGED_SIZE_LIMIT + 2}}
    \* a two-byte size field
    \cup {<<tg, 1, 0>> \o PayloadOfLen(tg, m) :
            tg \in {BYTE_ARRAY_TAGGED_OFFSET + 1, LIST_TAGGED_OFFSET + 1},
            m \in {255, 256, 257}}
    \* a size field that starts with a zero byte, complete, with and without payload
    \cup {<<tg, 0>> \o Rep(1, SizeFieldWidth(tg) - 1) \o PayloadOfLen(tg, m) :
            tg \in TaggedTags, m \in {0, 1, UNTAGGED_SIZE_LIMIT + 1}}
    \* a short list or array whose payload is longer than the exhaustive inputs
    \cup {<<tg>> \o PayloadOfLen(tg, m) :
            tg \in {BYTE_ARRAY_UNTAGGED_LIMIT, LIST_UNTAGGED_LIMIT},
            m \in {UNTAGGED_SIZE_LIMIT - 1, UNTAGGED_SIZE_LIMIT, UNTAGGED_SIZE_LIMIT + 1}}

(***************************************************************************)
(* The state machine of the RLP codec: a caller serializes an item and     *)
(* puts the encoding, followed by other bytes, in a buffer, or receives a  *)
(* buffer from outside; it then decodes the buffer and may serialize the   *)
(* decoded item again.                                                     *)
(***************************************************************************)
Init ==
    /\ pc = "idle"
    /\ item = None
    /\ wire = <<>>
    /\ tail = <<>>
    /\ input = <<>>
    /\ res = None
    /\ reenc = <<>>

\* RlpItem::serialize on an item of the caller, followed in the buffer by `r`.
Serialize ==
    /\ pc = "idle"
    /\ \E x \in RlpItems, r \in Tails :
         /\ item' = x
         /\ wire' = serialize(x)
         /\ tail' = r
         /\ input' = wire' \o r
    /\ pc' = "serialized"
    /\ UNCHANGED <<res, reenc>>

\* A buffer that comes from outside.
Receive ==
    /\ pc = "idle"
    /\ \E raw \in RawInputs : input' = raw
    /\ pc' = "received"
    /\ UNCHANGED <<item, wire, tail, res, reenc>>

\* RlpItem::deserialize
Deserialize ==
    /\ pc \in {"serialized", "received"}
    /\ res' = deserialize(input)
    /\ pc' = "deserialized"
    /\ UNCHANGED <<item, wire, tail, input, reenc>>

\* RlpItem::try_deserialize
TryDeserialize ==
    /\ pc \in {"serialized", "received"}
    /\ res' = try_deserialize(input)
    /\ pc' = "try_deserialized"
    /\ UNCHANGED <<item, wire, tail, input, reenc>>

\* RlpItem::serialize on the item a decode returned.
Reserialize ==
    /\ pc = "deserialized"
    /\ res.tag = "Ok"
    /\ reenc' = serialize(res.item)
    /\ pc' = "reserialized"
    /\ UNCHANGED <<item, wire, tail, input, res>>

NextRlp == Serialize \/ Receive \/ Deserialize \/ TryDeserialize \/ Reserialize

SpecRlp == Init /\ [][NextRlp]_vars

\* The buffer holds an encoding this program produced / came from outside.
FromItem == item # None
FromOutside == item = None

(***************************************************************************)
(* Conversions between Rust values and RLP items (ToRlpItem, FromRlpItem). *)
(* A conversion that panics yields Panic; the others yield Ok(bytes) or    *)
(* Ok(item).                                                               *)
(*                                                                         *)
(* Where the result of a call is inspected more than once, it is bound by  *)
(* CHOOSE out \in {e(d) : d \in {call}} : TRUE, which is e(call) with the  *)
(* call evaluated once (Rust's let d = call).                              *)
(***************************************************************************)
VOk(bs) == [tag |-> "Ok", bytes |-> bs]
SerErr(kind) == [tag |-> "Err", err |-> kind]

\* Ok(prefix ++ bytes of r), or r's failure.
Prepend(prefix, r) ==
    CHOOSE out \in {IF a.tag = "Ok" THEN VOk(prefix \o a.bytes) ELSE a : a \in {r}} : TRUE
\* r1 then r2, evaluated in that order: the first failure wins.
Join(r1, r2) ==
    CHOOSE out \in
        {IF a.tag # "Ok" THEN a
         ELSE CHOOSE o2 \in {IF b.tag # "Ok" THEN b ELSE VOk(a.bytes \o b.bytes) :
                                 b \in {r2}} : TRUE :
            a \in {r1}} : TRUE

\* impl ToRlpItem for u8 / u32, then RlpItem::serialize
u32_to_rlp(n) ==
    IF usize_to_min_be_bytes_panics(n) THEN Panic
    ELSE VOk(serialize(ByteArray(usize_to_min_be_bytes(n))))

\* impl ToRlpItem for usize, then RlpItem::serialize
usize_to_rlp(n) ==
    IF usize_to_min_be_bytes_panics(n) THEN Panic
    ELSE VOk(serialize(ByteArray(usize_to_min_be_bytes(n))))

\* impl<T: ToRlpItem> ToRlpItem for Vec<T> with T = u8, then RlpItem::serialize:
\* a list with one item per byte.
bytes_to_rlp(bs) ==
    IF \E i \in 1..Len(bs) : usize_to_min_be_bytes_panics(bs[i]) THEN Panic
    ELSE VOk(serialize(List([i \in 1..Len(bs) |-> ByteArray(usize_to_min_be_bytes(bs[i]))])))

\* impl FromRlpItem for u8
u8_from_rlp_item(it) ==
    IF it.t # "ByteArray" THEN SerErr("InvalidBinary")
    ELSE IF Len(it.bytes) # 1 THEN SerErr("InvalidInt")
    ELSE VOk(<<it.bytes[1]>>)

\* impl<T: FromRlpItem> FromRlpItem for Vec<T> with T = u8
RECURSIVE u8s_from_rlp_items(_)
u8s_from_rlp_items(its) ==
    IF its = <<>> THEN VOk(<<>>)
    ELSE Join(u8_from_rlp_item(Head(its)), u8s_from_rlp_items(Tail(its)))

bytes_from_rlp_item(it) ==
    IF it.t # "List" THEN SerErr("InvalidList") ELSE u8s_from_rlp_items(it.items)

\* enum DeserErr, the variants that wrap a lower error
RlpErr(e) == [kind |-> "RlpErr", inner |-> e]
ExternalErr(e) == [kind |-> "ExternalErr", inner |-> e]
DeserErr(kind) == [kind |-> kind]
DeserErrByte(kind, byte) == [kind |-> kind, byte |-> byte]

\* Ok((decoded, rest)) of rlp_decode_bytes
OkBytes(bs, rest) == [tag |-> "Ok", bytes |-> bs, rest |-> rest]

\* fn rlp_decode_bytes(bytes: &[u8]) -> Result<(Bytes, &[u8]), DeserErr>
rlp_decode_bytes(bytes) ==
    CHOOSE out \in
        {IF r.tag = "Panic" THEN Panic
         ELSE IF r.tag = "Err" THEN Err(RlpErr(r.err))
         ELSE CHOOSE o2 \in {IF d.tag = "Err" THEN Err(ExternalErr(d.err))
                             ELSE OkBytes(d.bytes, r.rest) :
                                 d \in {bytes_from_rlp_item(r.item)}} : TRUE :
            r \in {try_deserialize(bytes)}} : TRUE

(***************************************************************************)
(* Big integers: a sign and a magnitude.                                   *)
(***************************************************************************)
Abs(n) == IF n < 0 THEN -n ELSE n

\* BigUint::to_bytes_be: the minimal big-endian digits, [0] for zero.
RECURSIVE biguint_to_bytes_be(_)
biguint_to_bytes_be(m) ==
    IF m < 256 THEN <<m>> ELSE Append(biguint_to_bytes_be(m \div 256), m % 256)

\* BigUint::from_bytes_be: leading zeros and the empty slice are accepted.
biguint_from_bytes_be(bs) == from_be_bytes(bs)

(***************************************************************************)
(* Constants of the FATE codec (data/consts.rs).                           *)
(***************************************************************************)
TRUE_TAG == 255
FALSE_TAG == 127
EMPTY_STRING == 95
EMPTY_TUPLE == 63
SHORT_STRING == 1
LONG_STRING == 1
SHORT_TUPLE == 11
LONG_TUPLE == 11
SHORT_LIST == 3
LONG_LIST == 31
SMALL_INT == 0
MAP == 47
MAP_ID == 191
VARIANT == 175
OBJECT == 159
CONTRACT_BYTEARRAY == 143

OTYPE_ADDRESS == 0
OTYPE_BYTES == 1
OTYPE_CONTRACT == 2
OTYPE_ORACLE == 3
OTYPE_ORACLE_QUERY == 4
OTYPE_CHANNEL == 5

SHORT_LIST_SIZE == 16
SHORT_TUPLE_SIZE == 16
SHORT_STRING_SIZE == 64
SMALL_INT_SIZE == 64

POS_SIGN == 0
NEG_SIGN == 1
NEG_BIG_INT == 239
POS_BIG_INT == 111
NEG_BITS == 207
POS_BITS == 79

TYPE_INTEGER == 7
TYPE_BOOLEAN == 23
TYPE_LIST == 39
TYPE_TUPLE == 55
TYPE_OBJECT == 71
TYPE_BITS == 87
TYPE_MAP == 103
TYPE_STRING == 119
TYPE_VARIANT == 135
TYPE_BYTES == 151
TYPE_CONTRACT_BYTEARRAY == 167
TYPE_VAR == 231
TYPE_ANY == 247

\* Most element types of a Tuple or Variant type: types.len() < 256.
TYPE_SIZE_LIMIT == 256

\* tag & 0b1000_0001 == (POS_SIGN << 7) | SMALL_INT
is_small_pos_int(tg) == tg < 128 /\ tg % 2 = 0
\* tag & 0b1000_0001 == (NEG_SIGN << 7) | SMALL_INT
is_small_neg_int(tg) == tg >= 128 /\ tg % 2 = 0
\* tag & 0b0000_0011 == SHORT_STRING
is_short_string(tg) == tg % 4 = SHORT_STRING
\* tag & 0b0000_1111 == SHORT_TUPLE
is_short_tuple(tg) == tg % 16 = SHORT_TUPLE
\* tag & 0b0000_1111 == SHORT_LIST
is_short_list(tg) == tg % 16 = SHORT_LIST
is_type_tag(tg) ==
    tg \in {TYPE_INTEGER, TYPE_BOOLEAN, TYPE_LIST, TYPE_TUPLE, TYPE_OBJECT,
            TYPE_BITS, TYPE_MAP, TYPE_STRING, TYPE_VARIANT, TYPE_BYTES,
            TYPE_CONTRACT_BYTEARRAY, TYPE_VAR, TYPE_ANY}

(***************************************************************************)
(* fn serialize_int(n: &BigInt) -> Bytes (data.rs)                         *)
(***************************************************************************)
serialize_int(n) ==
    LET abs == Abs(n)
        sign == IF n < 0 THEN NEG_SIGN ELSE POS_SIGN
    IN  IF abs < SMALL_INT_SIZE
        THEN VOk(<<sign * 128 + abs * 2 + SMALL_INT>>)
        ELSE Prepend(<<IF sign = NEG_SIGN THEN NEG_BIG_INT ELSE POS_BIG_INT>>,
                     bytes_to_rlp(biguint_to_bytes_be(abs - SMALL_INT_SIZE)))

(***************************************************************************)
(* FATE types (data/types.rs): enum Type and enum BytesSize.               *)
(***************************************************************************)
Type_Any == [k |-> "Any"]
Type_Boolean == [k |-> "Boolean"]
Type_Integer == [k |-> "Integer"]
Type_Bits == [k |-> "Bits"]
Type_String == [k |-> "String"]
Type_Address == [k |-> "Address"]
Type_Contract == [k |-> "Contract"]
Type_Oracle == [k |-> "Oracle"]
Type_OracleQuery == [k |-> "OracleQuery"]
Type_Channel == [k |-> "Channel"]
Type_ContractBytearray == [k |-> "ContractBytearray"]
Type_TVar(n) == [k |-> "TVar", n |-> n]
Type_Bytes(size) == [k |-> "Bytes", size |-> size]
Type_List(ty) == [k |-> "List", elem |-> ty]
Type_Tuple(tys) == [k |-> "Tuple", elems |-> tys]
Type_Variant(tys) == [k |-> "Variant", elems |-> tys]
Type_Map(key, val) == [k |-> "Map", key |-> key, val |-> val]

Sized(n) == [sized |-> TRUE, n |-> n]
Unsized == [sized |-> FALSE, n |-> 0]

(***************************************************************************)
(* FATE values (data/value.rs): enum Value.  A BTreeMap is the sequence of *)
(* its entries in iteration order.                                         *)
(***************************************************************************)
Boolean(b) == [t |-> "Boolean", b |-> b]
Integer(n) == [t |-> "Integer", n |-> n]
Bits(n) == [t |-> "Bits", n |-> n]
ValueList(elems) == [t |-> "List", elems |-> elems]
Tuple(elems) == [t |-> "Tuple", elems |-> elems]
String(bs) == [t |-> "String", bytes |-> bs]
Bytes(bs) == [t |-> "Bytes", bytes |-> bs]
Address(bs) == [t |-> "Address", bytes |-> bs]
Contract(bs) == [t |-> "Contract", bytes |-> bs]
Oracle(bs) == [t |-> "Oracle", bytes |-> bs]
OracleQuery(bs) == [t |-> "OracleQuery", bytes |-> bs]
Channel(bs) == [t |-> "Channel", bytes |-> bs]
ContractBytearray(bs) == [t |-> "ContractBytearray", bytes |-> bs]
Typerep(ty) == [t |-> "Typerep", ty |-> ty]
Map(entries) == [t |-> "Map", entries |-> entries]
StoreMap(cache, id) == [t |-> "StoreMap", cache |-> cache, id |-> id]
Variant(arities, tg, values) ==
    [t |-> "Variant", arities |-> arities, vtag |-> tg, values |-> values]

Entry(key, val) == [key |-> key, val |-> val]

\* fn ordinal(&self) -> usize; Typerep and StoreMap panic.
ordinal_panics(v) == v.t \in {"Typerep", "StoreMap"}
ordinal(v) ==
    CASE v.t = "Integer" -> 0
      [] v.t = "Boolean" -> 1
      [] v.t = "Address" -> 2
      [] v.t = "Channel" -> 3
      [] v.t = "Contract" -> 4
      [] v.t = "Oracle" -> 5
      [] v.t = "Bytes" -> 6
      [] v.t = "Bits" -> 7
      [] v.t = "String" -> 8
      [] v.t = "Tuple" -> 9
      [] v.t = "Map" -> 10
      [] v.t = "List" -> 11
      [] v.t = "Variant" -> 12
      [] v.t = "OracleQuery" -> 13
      [] v.t = "ContractBytearray" -> 14

int_cmp(a, b) == IF a < b THEN "Less" ELSE IF a > b THEN "Greater" ELSE "Equal"

\* Vec<u8>::cmp: lexicographic.
RECURSIVE bytes_cmp(_, _)
bytes_cmp(a, b) ==
    IF a = <<>> /\ b = <<>> THEN "Equal"
    ELSE IF a = <<>> THEN "Less"
    ELSE IF b = <<>> THEN "Greater"
    ELSE IF Head(a) # Head(b) THEN int_cmp(Head(a), Head(b))
    ELSE bytes_cmp(Tail(a), Tail(b))

\* impl PartialOrd for Value / impl Ord for Value, for operands whose ordinal
\* is defined.
cmp(a, b) ==
    IF ordinal(a) # ordinal(b) THEN int_cmp(ordinal(a), ordinal(b))
    ELSE IF a.t = "Boolean" THEN int_cmp(IF a.b THEN 1 ELSE 0, IF b.b THEN 1 ELSE 0)
    ELSE IF a.t = "Integer" THEN int_cmp(a.n, b.n)
    ELSE IF a.t = "String" THEN bytes_cmp(a.bytes, b.bytes)
    ELSE "Equal"

\* BTreeMap::insert(key, val) under Value::cmp.  The search compares the new
\* key with keys of the map, so any insert into a non-empty map panics when
\* the new key or a stored key has no ordinal.  An Equal key keeps its place
\* and its key, and takes the new value.
btree_insert_panics(m, key) ==
    m # <<>> /\ (ordinal_panics(key) \/ \E i \in 1..Len(m) : ordinal_panics(m[i].key))
btree_insert(m, key, val) ==
    IF m = <<>> THEN <<Entry(key, val)>>
    ELSE LET notGreater == {i \in 1..Len(m) : cmp(key, m[i].key) # "Greater"}
             pos == IF notGreater = {} THEN Len(m) + 1
                    ELSE CHOOSE i \in notGreater : \A j \in notGreater : i <= j
         IN  IF pos <= Len(m) /\ cmp(key, m[pos].key) = "Equal"
             THEN [m EXCEPT ![pos] = Entry(m[pos].key, val)]
             ELSE SubSeq(m, 1, pos - 1) \o <<Entry(key, val)>> \o SubSeq(m, pos, Len(m))

\* Ok(map) of a sequence of inserts
OkMap(m) == [tag |-> "Ok", entries |-> m]

\* The map built by inserting elems[0], elems[1]; elems[2], elems[3]; ...
RECURSIVE btree_from_elems(_, _)
btree_from_elems(m, elems) ==
    IF elems = <<>> THEN OkMap(m)
    ELSE IF btree_insert_panics(m, elems[1]) THEN Panic
    ELSE CHOOSE out \in {btree_from_elems(m2, SubSeq(elems, 3, Len(elems))) :
                             m2 \in {btree_insert(m, elems[1], elems[2])}} : TRUE

(***************************************************************************)
(* Serialization of types and values.                                      *)
(***************************************************************************)
RECURSIVE type_serialize(_), type_serialize_all(_)
RECURSIVE value_serialize(_), value_serialize_all(_), entries_serialize(_)

\* for t in types { res.extend(t.serialize()?) }: the encodings in order, or
\* the first failure.  The sequence is split in halves to keep the recursion
\* shallow.
type_serialize_all(tys) ==
    IF tys = <<>> THEN VOk(<<>>)
    ELSE IF Len(tys) = 1 THEN type_serialize(tys[1])
    ELSE LET h == Len(tys) \div 2
         IN  Join(type_serialize_all(SubSeq(tys, 1, h)),
                  type_serialize_all(SubSeq(tys, h + 1, Len(tys))))

\* Type::serialize
type_serialize(ty) ==
    CASE ty.k = "Integer" -> VOk(<<TYPE_INTEGER>>)
      [] ty.k = "Boolean" -> VOk(<<TYPE_BOOLEAN>>)
      [] ty.k = "Any" -> VOk(<<TYPE_ANY>>)
      [] ty.k = "List" -> Prepend(<<TYPE_LIST>>, type_serialize(ty.elem))
      [] ty.k = "TVar" -> VOk(<<TYPE_VAR, ty.n>>)
      [] ty.k = "Tuple" ->
            IF Len(ty.elems) < TYPE_SIZE_LIMIT
            THEN Prepend(<<TYPE_TUPLE, Len(ty.elems)>>, type_serialize_all(ty.elems))
            ELSE SerErr("TupleSizeLimitExceeded")
      [] ty.k = "Bytes" ->
            Prepend(<<TYPE_BYTES>>, serialize_int(IF ty.size.sized THEN ty.size.n ELSE -1))
      [] ty.k = "Address" -> VOk(<<TYPE_OBJECT, OTYPE_ADDRESS>>)
      [] ty.k = "Contract" -> VOk(<<TYPE_OBJECT, OTYPE_CONTRACT>>)
      [] ty.k = "Oracle" -> VOk(<<TYPE_OBJECT, OTYPE_ORACLE>>)
      [] ty.k = "OracleQuery" -> VOk(<<TYPE_OBJECT, OTYPE_ORACLE_QUERY>>)
      [] ty.k = "Channel" -> VOk(<<TYPE_OBJECT, OTYPE_CHANNEL>>)
      [] ty.k = "Bits" -> VOk(<<TYPE_BITS>>)
      [] ty.k = "String" -> VOk(<<TYPE_STRING>>)
      [] ty.k = "Map" ->
            Prepend(<<TYPE_MAP>>, Join(type_serialize(ty.key), type_serialize(ty.val)))
      [] ty.k = "Variant" ->
            IF Len(ty.elems) < TYPE_SIZE_LIMIT
            THEN Prepend(<<TYPE_VARIANT, Len(ty.elems)>>, type_serialize_all(ty.elems))
            ELSE SerErr("VariantSizeLimitExceeded")
      [] ty.k = "ContractBytearray" -> VOk(<<TYPE_CONTRACT_BYTEARRAY>>)

\* The String arm of Value::serialize
string_serialize(str) ==
    IF str = <<>> THEN VOk(<<EMPTY_STRING>>)
    ELSE IF Len(str) < SHORT_STRING_SIZE
    THEN VOk(<<Len(str) * 4 + SHORT_STRING>> \o str)
    ELSE Join(Prepend(<<LONG_STRING>>, serialize_int(Len(str) - SHORT_STRING_SIZE)), VOk(str))

\* fn serialize_address_object(address: &Bytes, object_id: u8) -> Bytes
serialize_address_object(address, object_id) ==
    Prepend(<<OBJECT, object_id>>, bytes_to_rlp(address))

\* for elem in elems { res.extend(elem.serialize()?) }
value_serialize_all(elems) ==
    IF elems = <<>> THEN VOk(<<>>)
    ELSE IF Len(elems) = 1 THEN value_serialize(elems[1])
    ELSE LET h == Len(elems) \div 2
         IN  Join(value_serialize_all(SubSeq(elems, 1, h)),
                  value_serialize_all(SubSeq(elems, h + 1, Len(elems))))

\* for (key, val) in map.into_iter() { key.serialize()?; val.serialize()? }
entries_serialize(m) ==
    IF m = <<>> THEN VOk(<<>>)
    ELSE Join(Join(value_serialize(m[1].key), value_serialize(m[1].val)),
              entries_serialize(Tail(m)))

\* Value::serialize_many
serialize_many(elems, short_size, short_id, long_id) ==
    IF Len(elems) < short_size
    THEN Prepend(<<Len(elems) * 16 + short_id>>, value_serialize_all(elems))
    ELSE Join(Prepend(<<long_id>>, usize_to_rlp(Len(elems) - short_size)),
              value_serialize_all(elems))

\* The Map arm of Value::serialize
map_serialize(m) ==
    Join(Prepend(<<MAP>>, usize_to_rlp(Len(m))),
         IF m # <<>> /\ \E i \in 1..Len(m) : m[i].key.t = "Map"
         THEN SerErr("MapAsKeyType")
         ELSE IF m # <<>> /\ ~ \A i \in 1..Len(m) : m[i].key.t = m[1].key.t
         THEN SerErr("HeteroMapKeys")
         ELSE IF m # <<>> /\ ~ \A i \in 1..Len(m) : m[i].val.t = m[1].val.t
         THEN SerErr("HeteroMapValues")
         ELSE entries_serialize(m))

\* The Variant arm of Value::serialize
variant_serialize(arities, tg, values) ==
    IF tg < Len(arities)
    THEN IF Len(values) = arities[tg + 1]
         THEN Join(Prepend(<<VARIANT>>, Join(bytes_to_rlp(arities), VOk(<<tg>>))),
                   value_serialize(Tuple(values)))
         ELSE SerErr("ArityValuesMismatch")
    ELSE SerErr("InvalidVariantTag")

\* Value::serialize
value_serialize(v) ==
    CASE v.t = "Boolean" -> VOk(<<IF v.b THEN TRUE_TAG ELSE FALSE_TAG>>)
      [] v.t = "Integer" -> serialize_int(v.n)
      [] v.t = "Bits" ->
            Prepend(<<IF v.n < 0 THEN NEG_BITS ELSE POS_BITS>>,
                    bytes_to_rlp(biguint_to_bytes_be(Abs(v.n))))
      [] v.t = "String" -> string_serialize(v.bytes)
      [] v.t = "Tuple" ->
            IF v.elems = <<>> THEN VOk(<<EMPTY_TUPLE>>)
            ELSE serialize_many(v.elems, SHORT_TUPLE_SIZE, SHORT_TUPLE, LONG_TUPLE)
      [] v.t = "List" -> serialize_many(v.elems, SHORT_LIST_SIZE, SHORT_LIST, LONG_LIST)
      [] v.t = "Bytes" -> Prepend(<<OBJECT, OTYPE_BYTES>>, string_serialize(v.bytes))
      [] v.t = "Address" -> serialize_address_object(v.bytes, OTYPE_ADDRESS)
      [] v.t = "Contract" -> serialize_address_object(v.bytes, OTYPE_CONTRACT)
      [] v.t = "Oracle" -> serialize_address_object(v.bytes, OTYPE_ORACLE)
      [] v.t = "OracleQuery" -> serialize_address_object(v.bytes, OTYPE_ORACLE_QUERY)
      [] v.t = "Channel" -> serialize_address_object(v.bytes, OTYPE_CHANNEL)
      [] v.t = "ContractBytearray" ->
            Join(Prepend(<<CONTRACT_BYTEARRAY>>, serialize_int(Len(v.bytes))), VOk(v.bytes))
      [] v.t = "Typerep" -> type_serialize(v.ty)
      [] v.t = "Map" -> map_serialize(v.entries)
      [] v.t = "StoreMap" ->
            IF v.cache = <<>> THEN Prepend(<<MAP_ID>>, u32_to_rlp(v.id))
            ELSE SerErr("NonEmptyStoreMapCache")
      [] v.t = "Variant" -> variant_serialize(v.arities, v.vtag, v.values)

(***************************************************************************)
(* Deserialization of types and values.  An index or a slice beyond the    *)
(* input panics.                                                           *)
(***************************************************************************)
\* Ok((elems, rest)) of deserialize_many
OkItemsRest(its, rest) == [tag |-> "Ok", items |-> its, rest |-> rest]

\* The bytes of a big-endian number without its leading zeros.
RECURSIVE significant(_)
significant(bs) == IF bs # <<>> /\ Head(bs) = 0 THEN significant(Tail(bs)) ELSE bs

\* BigUint::to_usize / to_u32 are Some: the number fits the width.
U32_BYTES == 4
fits(bs, width) == Len(significant(bs)) <= width

RECURSIVE type_deserialize(_), type_deserialize_n(_, _)
RECURSIVE value_try_deserialize(_), value_deserialize_many(_, _)

\* The loop of Type::deserialize_many: n types from bytes.
type_deserialize_n(n, bytes) ==
    IF n = 0 THEN OkItemsRest(<<>>, bytes)
    ELSE CHOOSE out \in
            {IF d.tag # "Ok" THEN d
             ELSE CHOOSE o2 \in {IF more.tag # "Ok" THEN more
                                 ELSE OkItemsRest(<<d.item>> \o more.items, more.rest) :
                                     more \in {type_deserialize_n(n - 1, d.rest)}} : TRUE :
                d \in {type_deserialize(bytes)}} : TRUE

\* Type::deserialize_many
type_deserialize_many(bytes) ==
    IF bytes = <<>> THEN Err(DeserErr("InvalidTupleOrVariant"))
    ELSE type_deserialize_n(bytes[1], SliceFrom(bytes, 1))

\* The TYPE_BYTES arm of Type::deserialize.  Every integer within the bounds
\* fits a usize, so to_usize is Some.
type_deserialize_bytes(bytes) ==
    CHOOSE out \in
        {IF d.tag # "Ok" THEN d
         ELSE IF d.item.t # "Integer" THEN Err(DeserErr("InvalidBytesType"))
         ELSE IF d.item.n = -1 THEN OkRest(Type_Bytes(Unsized), d.rest)
         ELSE IF d.item.n >= 0 THEN OkRest(Type_Bytes(Sized(d.item.n)), d.rest)
         ELSE Err(DeserErr("InvalidIntValue")) :
            d \in {value_try_deserialize(SliceFrom(bytes, 1))}} : TRUE

\* The TYPE_OBJECT arm of Type::deserialize
type_deserialize_object(bytes) ==
    IF Len(bytes) < 2 THEN Panic
    ELSE CASE bytes[2] = OTYPE_ADDRESS -> OkRest(Type_Address, SliceFrom(bytes, 2))
           [] bytes[2] = OTYPE_CONTRACT -> OkRest(Type_Contract, SliceFrom(bytes, 2))
           [] bytes[2] = OTYPE_ORACLE -> OkRest(Type_Oracle, SliceFrom(bytes, 2))
           [] bytes[2] = OTYPE_ORACLE_QUERY -> OkRest(Type_OracleQuery, SliceFrom(bytes, 2))
           [] bytes[2] = OTYPE_CHANNEL -> OkRest(Type_Channel, SliceFrom(bytes, 2))
           [] OTHER -> Err(DeserErrByte("InvalidTypeObjectByte", bytes[2]))

\* The TYPE_TUPLE and TYPE_VARIANT arms of Type::deserialize
type_deserialize_elems(bytes, is_tuple) ==
    CHOOSE out \in
        {IF d.tag # "Ok" THEN d
         ELSE OkRest(IF is_tuple THEN Type_Tuple(d.items) ELSE Type_Variant(d.items), d.rest) :
            d \in {type_deserialize_many(SliceFrom(bytes, 1))}} : TRUE

\* The TYPE_LIST arm of Type::deserialize
type_deserialize_list(bytes) ==
    CHOOSE out \in
        {IF d.tag # "Ok" THEN d ELSE OkRest(Type_List(d.item), d.rest) :
            d \in {type_deserialize(SliceFrom(bytes, 1))}} : TRUE

\* The TYPE_MAP arm of Type::deserialize
type_deserialize_map(bytes) ==
    CHOOSE out \in
        {IF key.tag # "Ok" THEN key
         ELSE CHOOSE o2 \in {IF val.tag # "Ok" THEN val
                             ELSE OkRest(Type_Map(key.item, val.item), val.rest) :
                                 val \in {type_deserialize(key.rest)}} : TRUE :
            key \in {type_deserialize(SliceFrom(bytes, 1))}} : TRUE

\* Type::deserialize
type_deserialize(bytes) ==
    IF bytes = <<>> THEN Err(DeserErr("Empty"))
    ELSE CASE bytes[1] = TYPE_INTEGER -> OkRest(Type_Integer, SliceFrom(bytes, 1))
           [] bytes[1] = TYPE_BOOLEAN -> OkRest(Type_Boolean, SliceFrom(bytes, 1))
           [] bytes[1] = TYPE_ANY -> OkRest(Type_Any, SliceFrom(bytes, 1))
           [] bytes[1] = TYPE_BITS -> OkRest(Type_Bits, SliceFrom(bytes, 1))
           [] bytes[1] = TYPE_STRING -> OkRest(Type_String, SliceFrom(bytes, 1))
           [] bytes[1] = TYPE_CONTRACT_BYTEARRAY ->
                 OkRest(Type_ContractBytearray, SliceFrom(bytes, 1))
           [] bytes[1] = TYPE_VAR ->
                 IF Len(bytes) < 2 THEN Err(DeserErr("InvalidTypeVar"))
                 ELSE OkRest(Type_TVar(bytes[2]), SliceFrom(bytes, 2))
           [] bytes[1] = TYPE_TUPLE -> type_deserialize_elems(bytes, TRUE)
           [] bytes[1] = TYPE_VARIANT -> type_deserialize_elems(bytes, FALSE)
           [] bytes[1] = TYPE_BYTES -> type_deserialize_bytes(bytes)
           [] bytes[1] = TYPE_LIST -> type_deserialize_list(bytes)
           [] bytes[1] = TYPE_MAP -> type_deserialize_map(bytes)
           [] bytes[1] = TYPE_OBJECT -> type_deserialize_object(bytes)
           [] OTHER -> Err(DeserErrByte("InvalidTypeId", bytes[1]))

\* Value::deserialize_many
value_deserialize_many(n, bytes) ==
    IF n = 0 THEN OkItemsRest(<<>>, bytes)
    ELSE CHOOSE out \in
            {IF d.tag # "Ok" THEN d
             ELSE CHOOSE o2 \in {IF more.tag # "Ok" THEN more
                                 ELSE OkItemsRest(<<d.item>> \o more.items, more.rest) :
                                     more \in {value_deserialize_many(n - 1, d.rest)}} : TRUE :
                d \in {value_try_deserialize(bytes)}} : TRUE

\* The NEG_BIG_INT, POS_BIG_INT, NEG_BITS and POS_BITS arms, after
\* let (decoded, rest) = rlp_decode_bytes(..)?: an Integer adds SMALL_INT_SIZE
\* to the magnitude.
decode_big(d, sign, offset, bits) ==
    IF d.tag # "Ok" THEN d
    ELSE OkRest(IF bits THEN Bits(sign * biguint_from_bytes_be(d.bytes))
                ELSE Integer(sign * (biguint_from_bytes_be(d.bytes) + offset)),
                d.rest)

\* Ok(Tuple(elems)) or Ok(List(elems)) of a deserialize_many result
many_result(m, is_tuple) ==
    IF m.tag # "Ok" THEN m
    ELSE OkRest(IF is_tuple THEN Tuple(m.items) ELSE ValueList(m.items), m.rest)

\* The LONG_TUPLE and LONG_LIST arms, after rlp_decode_bytes
decode_long_many(d, short_size, is_tuple) ==
    IF d.tag # "Ok" THEN d
    ELSE IF ~ fits(d.bytes, USIZE_BYTES)
    THEN Err(DeserErr(IF is_tuple THEN "InvalidTupleSize" ELSE "InvalidListSize"))
    ELSE CHOOSE out \in
            {many_result(m, is_tuple) :
                m \in {value_deserialize_many(biguint_from_bytes_be(d.bytes) + short_size,
                                              d.rest)}} : TRUE

\* The LONG_STRING and CONTRACT_BYTEARRAY arms, after Self::try_deserialize: an
\* integer length, then that many bytes taken by rest[..size] without a length
\* check.  Every integer within the bounds fits a usize, so to_usize is Some.
decode_sized_bytes(d, offset, is_string) ==
    IF d.tag # "Ok" THEN d
    ELSE IF ~ (d.item.t = "Integer" /\ d.item.n >= 0)
    THEN Err(DeserErr(IF is_string THEN "InvalidString" ELSE "InvalidContractBytearray"))
    ELSE LET size == d.item.n + offset
         IN  IF size > Len(d.rest) THEN Panic
             ELSE OkRest(IF is_string THEN String(Slice(d.rest, 0, size))
                         ELSE ContractBytearray(Slice(d.rest, 0, size)),
                         SliceFrom(d.rest, size))

\* The OBJECT arm: inner is Self::try_deserialize(&bytes[2..]) for a Bytes
\* object and d is rlp_decode_bytes(&bytes[2..]) for the others (None when the
\* arm does not make the call).
decode_object(bytes, inner, d) ==
    IF Len(bytes) < 3 THEN Err(DeserErr("InvalidObject"))
    ELSE IF bytes[2] = OTYPE_BYTES
    THEN IF inner.tag # "Ok" THEN inner
         ELSE IF inner.item.t = "String" THEN OkRest(Bytes(inner.item.bytes), inner.rest)
         ELSE Err(DeserErr("InvalidBytesObject"))
    ELSE IF d.tag # "Ok" THEN d
    ELSE CASE bytes[2] = OTYPE_ADDRESS -> OkRest(Address(d.bytes), d.rest)
           [] bytes[2] = OTYPE_CONTRACT -> OkRest(Contract(d.bytes), d.rest)
           [] bytes[2] = OTYPE_ORACLE -> OkRest(Oracle(d.bytes), d.rest)
           [] bytes[2] = OTYPE_ORACLE_QUERY -> OkRest(OracleQuery(d.bytes), d.rest)
           [] bytes[2] = OTYPE_CHANNEL -> OkRest(Channel(d.bytes), d.rest)
           [] OTHER -> Err(DeserErrByte("InvalidObjectByte", bytes[2]))

\* The map of the MAP arm, built from the decoded elements.
map_result(m) ==
    IF m.tag # "Ok" THEN m
    ELSE CHOOSE out \in
            {IF map.tag # "Ok" THEN map ELSE OkRest(Map(map.entries), m.rest) :
                map \in {btree_from_elems(<<>>, m.items)}} : TRUE

\* The MAP arm, after rlp_decode_bytes
decode_map(d) ==
    IF d.tag # "Ok" THEN d
    ELSE IF ~ fits(d.bytes, USIZE_BYTES) THEN Err(DeserErr("InvalidMapSize"))
    ELSE CHOOSE out \in
            {map_result(m) :
                m \in {value_deserialize_many(biguint_from_bytes_be(d.bytes) * 2, d.rest)}} : TRUE

\* The MAP_ID arm, after rlp_decode_bytes
decode_map_id(d) ==
    IF d.tag # "Ok" THEN d
    ELSE IF ~ fits(d.bytes, U32_BYTES) THEN Err(DeserErr("InvalidMapId"))
    ELSE OkRest(StoreMap(<<>>, biguint_from_bytes_be(d.bytes)), d.rest)

\* The VARIANT arm once arities, tag and the tuple e are decoded: arities[tag]
\* is an unchecked indexing.
variant_result(arities, tg, e) ==
    IF e.tag # "Ok" THEN e
    ELSE IF e.item.t # "Tuple" THEN Err(DeserErr("BadVariant"))
    ELSE IF tg >= Len(arities) THEN Panic
    ELSE IF arities[tg + 1] = Len(e.item.elems)
    THEN OkRest(Variant(arities, tg, e.item.elems), e.rest)
    ELSE Err(DeserErr("TagDoesNotMatchTypeInVariant"))

\* The VARIANT arm, after rlp_decode_bytes: rest[0] is an unchecked indexing.
decode_variant(d) ==
    IF d.tag # "Ok" THEN d
    ELSE IF d.rest = <<>> THEN Panic
    ELSE IF d.rest[1] > Len(d.bytes) THEN Err(DeserErr("TooLargeTagInVariant"))
    ELSE CHOOSE out \in
            {variant_result(d.bytes, d.rest[1], e) :
                e \in {value_try_deserialize(SliceFrom(d.rest, 1))}} : TRUE

\* The arms of Value::try_deserialize that take the RLP item after the
\* discriminator; d is rlp_decode_bytes of the bytes after it.
decode_rlp_arm(tg, d) ==
    CASE tg = NEG_BIG_INT -> decode_big(d, -1, SMALL_INT_SIZE, FALSE)
      [] tg = POS_BIG_INT -> decode_big(d, 1, SMALL_INT_SIZE, FALSE)
      [] tg = NEG_BITS -> decode_big(d, -1, 0, TRUE)
      [] tg = POS_BITS -> decode_big(d, 1, 0, TRUE)
      [] tg = LONG_TUPLE -> decode_long_many(d, SHORT_TUPLE_SIZE, TRUE)
      [] tg = LONG_LIST -> decode_long_many(d, SHORT_LIST_SIZE, FALSE)
      [] tg = MAP -> decode_map(d)
      [] tg = MAP_ID -> decode_map_id(d)
      [] tg = VARIANT -> decode_variant(d)

\* The arms of Value::try_deserialize that decode a value or a type after
\* the discriminator bytes, or the elements of a short tuple or list.
decode_nested_arm(bytes, tg) ==
    IF tg \in {LONG_STRING, CONTRACT_BYTEARRAY}
    THEN CHOOSE out \in
            {decode_sized_bytes(d, IF tg = LONG_STRING THEN SHORT_STRING_SIZE ELSE 0,
                                tg = LONG_STRING) :
                d \in {value_try_deserialize(SliceFrom(bytes, 1))}} : TRUE
    ELSE IF tg = OBJECT
    THEN IF Len(bytes) >= 3 /\ bytes[2] = OTYPE_BYTES
         THEN CHOOSE out \in
                {decode_object(bytes, inner, None) :
                    inner \in {value_try_deserialize(SliceFrom(bytes, 2))}} : TRUE
         ELSE CHOOSE out \in
                {decode_object(bytes, None, d) :
                    d \in {rlp_decode_bytes(SliceFrom(bytes, 2))}} : TRUE
    ELSE IF is_short_tuple(tg) \/ is_short_list(tg)
    THEN CHOOSE out \in
            {many_result(m, is_short_tuple(tg)) :
                m \in {value_deserialize_many(tg \div 16, SliceFrom(bytes, 1))}} : TRUE
    ELSE CHOOSE out \in
            {IF d.tag # "Ok" THEN d ELSE OkRest(Typerep(d.item), d.rest) :
                d \in {type_deserialize(bytes)}} : TRUE

\* Value::try_deserialize
value_try_deserialize(bytes) ==
    IF bytes = <<>> THEN Err(DeserErr("Empty"))
    ELSE LET tg == bytes[1]
             rest == SliceFrom(bytes, 1)
         IN  CASE tg = TRUE_TAG -> OkRest(Boolean(TRUE), rest)
               [] tg = FALSE_TAG -> OkRest(Boolean(FALSE), rest)
               [] tg = EMPTY_TUPLE -> OkRest(Tuple(<<>>), rest)
               [] tg = EMPTY_STRING -> OkRest(String(<<>>), rest)
               [] tg \in {NEG_BIG_INT, POS_BIG_INT, NEG_BITS, POS_BITS, LONG_TUPLE,
                          LONG_LIST, MAP, MAP_ID, VARIANT} ->
                    CHOOSE out \in {decode_rlp_arm(tg, d) : d \in {rlp_decode_bytes(rest)}} : TRUE
               [] tg \in {LONG_STRING, CONTRACT_BYTEARRAY, OBJECT} ->
                    decode_nested_arm(bytes, tg)
               [] OTHER ->
                    IF is_small_pos_int(tg) THEN OkRest(Integer((tg % 128) \div 2), rest)
                    ELSE IF is_small_neg_int(tg) THEN OkRest(Integer(-((tg % 128) \div 2)), rest)
                    ELSE IF is_short_string(tg)
                    THEN IF tg \div 4 + 1 > Len(bytes) THEN Panic
                         ELSE OkRest(String(Slice(bytes, 1, tg \div 4 + 1)),
                                     SliceFrom(bytes, tg \div 4 + 1))
                    ELSE IF is_short_tuple(tg) \/ is_short_list(tg) \/ is_type_tag(tg)
                    THEN decode_nested_arm(bytes, tg)
                    ELSE Err(DeserErrByte("InvalidIdByte", tg))

\* Value::deserialize
value_deserialize(bytes) ==
    CHOOSE out \in
        {IF d.tag # "Ok" THEN d
         ELSE IF d.rest = <<>> THEN OkItem(d.item)
         ELSE Err(Trailing(bytes, d.rest, d.item)) :
            d \in {value_try_deserialize(bytes)}} : TRUE

(***************************************************************************)
(* Values and raw inputs of the value codec.                               *)
(***************************************************************************)
\* Longest raw input enumerated exhaustively for the value decoder.
MaxValueRawLen == 3

\* Integers around the small/big switch, and magnitudes whose big form has a
\* 0xFF byte (319 - 64) and a zero byte (320 - 64).
IntegerInputs == {-65, -64, -63, -1, 0, 1, SMALL_INT_SIZE - 1, SMALL_INT_SIZE,
                  SMALL_INT_SIZE + 1, 319, 320}
BitsInputs == {-1, 0, 1, 300}
\* String lengths around the short/long switch, up to the length whose long
\* form carries the integer SMALL_INT_SIZE.
StringLens == {0, 1, SHORT_STRING_SIZE - 1, SHORT_STRING_SIZE, SHORT_STRING_SIZE + 1,
               SHORT_STRING_SIZE + SMALL_INT_SIZE}
\* Element counts around the short/long switch of tuples and lists.
ElemCounts == {0, 1, 2, SHORT_TUPLE_SIZE - 1, SHORT_TUPLE_SIZE, SHORT_TUPLE_SIZE + 1}
AddressInputs == {<<>>, <<0>>, <<1, 2>>, Rep(7, 8)}

TypeInputs ==
    {Type_Any, Type_Boolean, Type_Integer, Type_Bits, Type_String, Type_Address,
     Type_Contract, Type_Oracle, Type_OracleQuery, Type_Channel, Type_ContractBytearray,
     Type_TVar(0), Type_TVar(255), Type_Bytes(Unsized), Type_Bytes(Sized(0)),
     Type_Bytes(Sized(32)), Type_Bytes(Sized(SMALL_INT_SIZE)),
     Type_Bytes(Sized(SMALL_INT_SIZE + 1)), Type_List(Type_String),
     Type_List(Type_Tuple(Rep(Type_Integer, TYPE_SIZE_LIMIT))),
     Type_Map(Type_Variant(Rep(Type_Integer, TYPE_SIZE_LIMIT)), Type_Integer),
     Type_Tuple(Rep(Type_Boolean, 20)),
     Type_Tuple(<<>>), Type_Tuple(<<Type_Integer, Type_List(Type_Boolean)>>),
     Type_Variant(<<Type_Tuple(<<>>), Type_Tuple(<<Type_Integer>>)>>),
     Type_Map(Type_Integer, Type_String),
     Type_Tuple(Rep(Type_Integer, TYPE_SIZE_LIMIT)),
     Type_Variant(Rep(Type_Integer, TYPE_SIZE_LIMIT))}

LeafValues ==
    {Boolean(TRUE), Boolean(FALSE)}
    \cup {Integer(n) : n \in IntegerInputs}
    \cup {Bits(n) : n \in BitsInputs}
    \cup {String(Rep(97, n)) : n \in StringLens}
    \cup {Bytes(Rep(98, n)) : n \in {0, 1, SHORT_STRING_SIZE}}
    \cup {ContractBytearray(Rep(99, n)) : n \in {0, 1, SMALL_INT_SIZE}}
    \cup UNION {{Address(a), Contract(a), Oracle(a), OracleQuery(a), Channel(a)} :
                    a \in AddressInputs}
    \cup {Typerep(ty) : ty \in TypeInputs}

\* Key/value sequences a BTreeMap is built from, in insertion order.
MapElems ==
    {<<>>,
     <<Integer(1), Boolean(TRUE)>>,
     <<Integer(2), Boolean(TRUE), Integer(1), Boolean(FALSE)>>,
     <<Integer(1), Boolean(TRUE), Integer(1), Boolean(FALSE)>>,
     <<Integer(1), Boolean(TRUE), String(<<97>>), Boolean(TRUE)>>,
     <<Integer(1), Boolean(TRUE), Integer(2), Integer(3)>>,
     <<Tuple(<<Integer(1)>>), Integer(1), Tuple(<<Integer(2)>>), Integer(2)>>,
     <<Map(<<>>), Integer(1)>>,
     <<Map(<<>>), Integer(1), Integer(1), Integer(1)>>,
     <<Integer(1), Boolean(TRUE), String(<<97>>), Integer(2)>>,
     <<Typerep(Type_Integer), Integer(1)>>,
     <<StoreMap(<<>>, 5), Integer(1)>>}
MapInputs == {btree_from_elems(<<>>, e).entries : e \in MapElems}

CompositeValues ==
    {Tuple(Rep(e, n)) : e \in {Integer(1), String(<<>>)}, n \in ElemCounts}
    \cup {ValueList(Rep(e, n)) : e \in {Integer(1), Tuple(<<>>)}, n \in ElemCounts}
    \cup {Tuple(<<Integer(SMALL_INT_SIZE + 1), ValueList(<<Boolean(TRUE)>>)>>),
          ValueList(<<Tuple(<<Integer(-1), String(<<97>>)>>)>>)}
    \cup {Map(m) : m \in MapInputs}
    \cup UNION {{Tuple(<<Integer(1), Map(m)>>), ValueList(<<Map(m)>>),
                 Variant(<<1>>, 0, <<Map(m)>>), Map(<<Entry(Integer(1), Map(m))>>),
                 Tuple(<<ValueList(<<Map(m)>>)>>)} : m \in MapInputs}
    \cup {StoreMap(<<>>, 0), StoreMap(<<>>, 5), StoreMap(<<>>, 300),
          StoreMap(<<Entry(Integer(1), Integer(2))>>, 5)}
    \cup {Variant(<<1, 2>>, 0, <<Integer(7)>>),
          Variant(<<1, 2>>, 1, <<Integer(7), Boolean(TRUE)>>),
          Variant(<<0, 1>>, 1, <<Integer(7)>>),
          Variant(<<1, 2>>, 2, <<Integer(7)>>),
          Variant(<<1, 2>>, 1, <<Integer(7)>>)}

Values == LeafValues \cup CompositeValues

ValueTails == {<<>>, <<0>>, <<TRUE_TAG>>}

\* Discriminator bytes of every arm of Value::try_deserialize, RLP headers
\* for the embedded sizes, and a byte no arm accepts.
ValueRawAlphabet ==
    {0, 2, BYTE_ARRAY_OFFSET, FALSE_TAG, EMPTY_TUPLE, POS_BIG_INT, NEG_BIG_INT, POS_BITS,
     LONG_TUPLE, LONG_LIST, LONG_STRING, CONTRACT_BYTEARRAY, OBJECT, MAP, MAP_ID, VARIANT,
     5, 27, 19, LIST_OFFSET, LIST_OFFSET + 1, TYPE_BYTES, TYPE_TUPLE, 15}

\* Longer inputs: well-formed encodings of each composite arm in the form the
\* decoder accepts, and their truncations.
ValueRawLong ==
    {<<VARIANT, LIST_OFFSET + 2, 1, 2, 0, 27, 2>>,
     <<VARIANT, LIST_OFFSET + 2, 1, 2, 1, 43, 2, 4>>,
     <<VARIANT, LIST_OFFSET + 2, 1, 2, 2, 27, 2>>,
     <<VARIANT, LIST_OFFSET + 2, 1, 2, 3, 27, 2>>,
     <<VARIANT, LIST_OFFSET + 2, 1, 2, 0, 43, 2, 4>>,
     <<VARIANT, LIST_OFFSET + 2, 1, 2, 0, 2>>,
     <<MAP, LIST_OFFSET + 1, 2, 2, FALSE_TAG, 4, TRUE_TAG>>,
     <<MAP, LIST_OFFSET + 1, 2, 4, FALSE_TAG, 2, TRUE_TAG>>,
     <<MAP, LIST_OFFSET + 1, 2, 2, FALSE_TAG, 2, TRUE_TAG>>,
     <<MAP, LIST_OFFSET + 1, 2, 27, 2, FALSE_TAG, 27, 4, TRUE_TAG>>,
     <<MAP, LIST_OFFSET + 1, 2, TYPE_TUPLE, 0, 2, 2, 4>>,
     <<MAP, LIST_OFFSET + 1, 2, 2, 4, TYPE_TUPLE, 0, 2>>,
     <<MAP_ID, LIST_OFFSET + 2, 1, 44>>,
     <<MAP, LIST_OFFSET + 1, 1, TYPE_INTEGER, 2>>,
     <<MAP, LIST_OFFSET + 1, 1, MAP_ID, LIST_OFFSET + 1, 5, 2>>,
     <<27, MAP, LIST_OFFSET + 1, 1, TYPE_INTEGER, 2>>,
     <<OBJECT, OTYPE_ADDRESS, LIST_OFFSET + 2, 1, 2>>,
     <<OBJECT, OTYPE_BYTES, 9, 1, 2>>,
     <<OBJECT, 6, LIST_OFFSET + 2, 1, 2>>,
     <<POS_BIG_INT, LIST_OFFSET + 2, 1, 0>>,
     <<NEG_BITS, LIST_OFFSET + 2, 1, 44>>,
     <<LONG_STRING, 0>> \o Rep(97, SHORT_STRING_SIZE),
     <<LONG_STRING, 0>> \o Rep(97, SHORT_STRING_SIZE - 1),
     <<LONG_TUPLE, LIST_OFFSET>> \o Rep(2, SHORT_TUPLE_SIZE),
     <<LONG_TUPLE, LIST_OFFSET + 1, 1>> \o Rep(2, SHORT_TUPLE_SIZE + 1),
     <<LONG_LIST, LIST_OFFSET>> \o Rep(2, SHORT_LIST_SIZE),
     <<LONG_LIST, LIST_OFFSET>> \o Rep(2, SHORT_LIST_SIZE - 1),
     <<CONTRACT_BYTEARRAY, 4, 1, 2>>,
     <<TYPE_BYTES, 64>>, <<TYPE_MAP, TYPE_INTEGER, TYPE_STRING>>,
     <<TYPE_OBJECT, OTYPE_CONTRACT>>, <<TYPE_OBJECT, OTYPE_BYTES>>, <<TYPE_OBJECT>>,
     <<TYPE_VARIANT, 2, TYPE_TUPLE, 0, TYPE_TUPLE, 1, TYPE_INTEGER>>}

ValueRawInputs == SeqsUpTo(ValueRawAlphabet, MaxValueRawLen) \cup ValueRawLong

(***************************************************************************)
(* The value codec as a state machine, on the same variables: wire and     *)
(* reenc hold the Result of Value::serialize.                              *)
(***************************************************************************)
\* Value::serialize on a value, sent with bytes after it.
ValueSerialize ==
    /\ pc = "idle"
    /\ \E v \in Values, r \in ValueTails :
         /\ item' = v
         /\ wire' = value_serialize(v)
         /\ tail' = r
         /\ input' = IF wire'.tag = "Ok" THEN wire'.bytes \o r ELSE <<>>
         /\ pc' = IF wire'.tag = "Ok" THEN "serialized" ELSE "failed"
    /\ UNCHANGED <<res, reenc>>

\* Bytes from outside.
ValueReceive ==
    /\ pc = "idle"
    /\ \E raw \in ValueRawInputs : input' = raw
    /\ pc' = "received"
    /\ UNCHANGED <<item, wire, tail, res, reenc>>

\* Value::deserialize
ValueDeserialize ==
    /\ pc \in {"serialized", "received"}
    /\ res' = value_deserialize(input)
    /\ pc' = "deserialized"
    /\ UNCHANGED <<item, wire, tail, input, reenc>>

\* Value::try_deserialize
ValueTryDeserialize ==
    /\ pc \in {"serialized", "received"}
    /\ res' = value_try_deserialize(input)
    /\ pc' = "try_deserialized"
    /\ UNCHANGED <<item, wire, tail, input, reenc>>

\* Value::serialize on the value a decode returned.
ValueReserialize ==
    /\ pc = "deserialized"
    /\ res.tag = "Ok"
    /\ reenc' = value_serialize(res.item)
    /\ pc' = "reserialized"
    /\ UNCHANGED <<item, wire, tail, input, res>>

\* Type::serialize on a type, sent with bytes after it.
TypeSerialize ==
    /\ pc = "idle"
    /\ \E ty \in TypeInputs, r \in ValueTails :
         /\ item' = ty
         /\ wire' = type_serialize(ty)
         /\ tail' = r
         /\ input' = IF wire'.tag = "Ok" THEN wire'.bytes \o r ELSE <<>>
         /\ pc' = IF wire'.tag = "Ok" THEN "type_serialized" ELSE "type_failed"
    /\ UNCHANGED <<res, reenc>>

\* Type::deserialize
TypeDeserialize ==
    /\ pc \in {"type_serialized", "received"}
    /\ res' = type_deserialize(input)
    /\ pc' = "type_deserialized"
    /\ UNCHANGED <<item, wire, tail, input, reenc>>

NextValue ==
    ValueSerialize \/ ValueReceive \/ ValueDeserialize \/ ValueTryDeserialize
    \/ ValueReserialize \/ TypeSerialize \/ TypeDeserialize

SpecValue == Init /\ [][NextValue]_vars

(***************************************************************************)
(* The ordering of values: a caller compares three values pairwise, as a   *)
(* BTreeMap does when it searches for a key.                               *)
(***************************************************************************)
\* Values of every variant that has an ordinal, two or more of each kind
\* whose order the comparison has to decide.
CmpValues ==
    {Integer(-1), Integer(2), Boolean(FALSE), Boolean(TRUE),
     String(<<>>), String(<<97>>), String(<<97, 98>>), Bits(1), Bits(2),
     Bytes(<<1>>), Bytes(<<2>>), Address(<<1>>), Address(<<1, 0>>), Contract(<<1>>),
     Oracle(<<1>>), OracleQuery(<<1>>), Channel(<<1>>), ContractBytearray(<<1>>),
     Tuple(<<>>), Tuple(<<Integer(1)>>), Tuple(<<Integer(2)>>),
     ValueList(<<Integer(1)>>), ValueList(<<Integer(1), Integer(1)>>),
     Map(<<>>), Map(<<Entry(Integer(1), Boolean(TRUE))>>),
     Variant(<<1>>, 0, <<Integer(1)>>), Variant(<<1>>, 0, <<Integer(2)>>)}

\* Ord::cmp on each pair of three values.
Compare ==
    /\ pc = "idle"
    /\ \E a \in CmpValues, b \in CmpValues, c \in CmpValues :
         /\ item' = <<a, b, c>>
         /\ res' = [ab |-> cmp(a, b), ba |-> cmp(b, a), bc |-> cmp(b, c), ac |-> cmp(a, c)]
    /\ pc' = "compared"
    /\ UNCHANGED <<wire, tail, input, reenc>>

NextCmp == Compare

SpecCmp == Init /\ [][NextCmp]_vars

(***************************************************************************)
(* Identifiers (id.rs): a tag and a 32-byte payload.                       *)
(***************************************************************************)
PUB_SIZE == 32
TAG_SIZE == 1
SERIALIZED_SIZE == TAG_SIZE + PUB_SIZE

\* enum Tag, by discriminant
Tag_Account == 1
Tag_Name == 2
Tag_Commitment == 3
Tag_Oracle == 4
Tag_Contract == 5
Tag_Channel == 6
Tags == {Tag_Account, Tag_Name, Tag_Commitment, Tag_Oracle, Tag_Contract, Tag_Channel}

\* struct Id { tag, val: EncodedId { bytes } }
Id(tg, bytes) == [idtag |-> tg, val |-> bytes]

\* Id::serialize
id_serialize(id) == <<id.idtag>> \o id.val

\* Id::deserialize with the length test written as a lower bound.
id_deserialize_min_length(bytes) ==
    IF Len(bytes) < SERIALIZED_SIZE THEN Err("InvalidIdSize")
    ELSE IF bytes[1] \notin Tags THEN Err("InvalidIdTag")
    ELSE IF Len(SliceFrom(bytes, TAG_SIZE)) # PUB_SIZE THEN Err("InvalidIdPub")
    ELSE OkItem(Id(bytes[1], SliceFrom(bytes, TAG_SIZE)))

\* Id::deserialize
id_deserialize(bytes) ==
    IF Len(bytes) # SERIALIZED_SIZE THEN Err("InvalidIdSize")
    ELSE IF bytes[1] \notin Tags THEN Err("InvalidIdTag")
    ELSE IF Len(SliceFrom(bytes, TAG_SIZE)) # PUB_SIZE THEN Err("InvalidIdPub")
    ELSE OkItem(Id(bytes[1], SliceFrom(bytes, TAG_SIZE)))

\* impl ToRlpItem for Id
id_to_rlp_item(id) == ByteArray(id_serialize(id))

\* impl FromRlpItem for Id
id_from_rlp_item(it) ==
    IF it.t = "List" THEN Err("InvalidRlp") ELSE id_deserialize(it.bytes)

\* Payloads: constant and mixed bytes, zero and 0xFF included.
IdPayloads ==
    {Rep(v, PUB_SIZE) : v \in {0, 7, 255}}
    \cup {<<1, 2, 3>> \o Rep(0, PUB_SIZE - 3), Rep(9, PUB_SIZE - 1) \o <<0>>}
Ids == {Id(tg, bytes) : tg \in Tags, bytes \in IdPayloads}

\* Raw inputs: lengths around SERIALIZED_SIZE, first bytes around the tag range.
IdRawLens == {0, 1, 2, PUB_SIZE, SERIALIZED_SIZE, SERIALIZED_SIZE + 1, 2 * SERIALIZED_SIZE}
IdFirstBytes == {0, Tag_Account, Tag_Commitment, Tag_Channel, Tag_Channel + 1, 255}
IdRawInputs ==
    {<<>>}
    \cup {<<b>> \o Rep(v, n - 1) : b \in IdFirstBytes, v \in {0, 9}, n \in IdRawLens \ {0}}

\* RLP items offered to FromRlpItem: lists, also ones that hold a serialized
\* id, and byte arrays.
IdRlpItems ==
    {List(<<>>), List(<<ByteArray(<<Tag_Account>> \o Rep(9, PUB_SIZE))>>),
     List(<<ByteArray(<<Tag_Account>>), ByteArray(Rep(9, PUB_SIZE))>>),
     ByteArray(<<>>), ByteArray(<<Tag_Name>> \o Rep(9, PUB_SIZE)),
     ByteArray(<<0>> \o Rep(9, PUB_SIZE)), ByteArray(Rep(Tag_Name, PUB_SIZE))}

(***************************************************************************)
(* The identifier codec as a state machine: tail holds the RLP item of an  *)
(* identifier, reenc what is computed from a decoded identifier.           *)
(***************************************************************************)
\* Id::serialize on an identifier of the caller.
IdSerialize ==
    /\ pc = "idle"
    /\ \E id \in Ids :
         /\ item' = id
         /\ wire' = id_serialize(id)
         /\ input' = wire'
    /\ pc' = "id_serialized"
    /\ UNCHANGED <<tail, res, reenc>>

\* Bytes from outside.
IdReceive ==
    /\ pc = "idle"
    /\ \E raw \in IdRawInputs : input' = raw
    /\ pc' = "received"
    /\ UNCHANGED <<item, wire, tail, res, reenc>>

\* Id::deserialize
IdDeserialize ==
    /\ pc \in {"id_serialized", "received"}
    /\ res' = id_deserialize(input)
    /\ pc' = "id_deserialized"
    /\ UNCHANGED <<item, wire, tail, input, reenc>>

\* Id::serialize on the identifier a decode returned.
IdReserialize ==
    /\ pc = "id_deserialized"
    /\ res.tag = "Ok"
    /\ reenc' = id_serialize(res.item)
    /\ pc' = "id_reserialized"
    /\ UNCHANGED <<item, wire, tail, input, res>>

\* to_rlp_item on the identifier a decode returned.
IdToRlpItem ==
    /\ pc = "id_deserialized"
    /\ res.tag = "Ok"
    /\ tail' = id_to_rlp_item(res.item)
    /\ pc' = "id_to_rlp"
    /\ UNCHANGED <<item, wire, input, res, reenc>>

\* An RLP item from outside.
IdReceiveItem ==
    /\ pc = "idle"
    /\ \E it \in IdRlpItems : tail' = it
    /\ pc' = "received_item"
    /\ UNCHANGED <<item, wire, input, res, reenc>>

\* FromRlpItem::from_rlp_item
IdFromRlpItem ==
    /\ pc \in {"id_to_rlp", "received_item"}
    /\ reenc' = id_from_rlp_item(tail)
    /\ pc' = "id_from_rlp"
    /\ UNCHANGED <<item, wire, tail, input, res>>

NextId ==
    IdSerialize \/ IdReceive \/ IdDeserialize \/ IdReserialize \/ IdToRlpItem
    \/ IdReceiveItem \/ IdFromRlpItem

SpecId == Init /\ [][NextId]_vars

(***************************************************************************)
(* Call data (src/crates/aebytecode/src/abi.rs).                           *)
(***************************************************************************)
\* impl Serializable for code::Id: the first four bytes of the Blake2b-256
\* digest of the name.  The digest is a table over the names used here; "init"
\* has its known identifier 0x44D6441F, and "get" and "put" stand for two names
\* whose digests start with the same four bytes.
FunNames == {"init", "main", "get", "put"}
fun_id(fun_name) ==
    CASE fun_name = "init" -> <<68, 214, 68, 31>>
      [] fun_name = "main" -> <<227, 0, 151, 9>>
      [] fun_name = "get" -> <<18, 52, 86, 120>>
      [] fun_name = "put" -> <<18, 52, 86, 120>>

\* Ok(args) of decode_calldata
OkArgs(args) == [tag |-> "Ok", args |-> args]

\* pub fn create_calldata(fun_name: &String, args: Vec<Value>) -> Result<Bytes, SerErr>
create_calldata(fun_name, args) ==
    value_serialize(Tuple(<<Bytes(fun_id(fun_name)), Tuple(args)>>))

\* pub fn decode_calldata(fun_name: &String, calldata: Bytes) -> Result<Vec<Value>, DeserErr>
decode_calldata(fun_name, calldata) ==
    CHOOSE out \in
        {IF d.tag # "Ok" THEN d
         ELSE IF /\ d.item.t = "Tuple"
                 /\ Len(d.item.elems) = 2
                 /\ d.item.elems[1] = Bytes(fun_id(fun_name))
         THEN IF d.item.elems[2].t = "Tuple"
              THEN OkArgs(d.item.elems[2].elems)
              ELSE Err(DeserErr("CalldataDecodeErr"))
         ELSE Err(DeserErr("CalldataDecodeErr")) :
            d \in {value_deserialize(calldata)}} : TRUE

\* Argument lists handed to create_calldata.
CalldataArgs ==
    {<<>>, <<Integer(1)>>, <<Integer(1), Boolean(TRUE)>>, <<Integer(-3), String(<<104, 105>>)>>,
     <<Tuple(<<Integer(1), Integer(2)>>)>>, <<ValueList(<<Boolean(FALSE)>>)>>,
     <<Bytes(<<18, 52, 86, 120>>), Tuple(<<>>)>>,
     <<Integer(64)>>, <<Bits(5)>>, <<StoreMap(<<>>, 5)>>, <<Variant(<<1, 2>>, 0, <<Integer(1)>>)>>,
     <<Variant(<<1>>, 3, <<>>)>>,
     Rep(Integer(1), 15), Rep(Integer(1), 16), Rep(Integer(1), 17),
     <<Tuple(Rep(Boolean(TRUE), 17))>>}

\* Encodings of values that are no call data, next to the general raw inputs.
CalldataRawInputs ==
    {<<43, 159, 1, 17, 68, 214, 68, 31, 2>>,
     <<43, 159, 1, 17, 68, 214, 68, 31, 63>>,
     <<43, 2, 63>>,
     <<27, 159, 1, 17, 68, 214, 68, 31>>,
     <<59, 159, 1, 17, 68, 214, 68, 31, 63, 63>>,
     <<43, 159, 1, 17, 68, 214, 68, 31, 63, 0>>,
     <<43, 159, 1, 17, 68, 214, 68, 31, 27, 2>>}

\* create_calldata on a name and arguments of the caller.
CreateCalldata ==
    /\ pc = "idle"
    /\ \E f \in FunNames, args \in CalldataArgs :
          /\ item' = [fun_name |-> f, args |-> args]
          /\ wire' = create_calldata(f, args)
          /\ input' = IF wire'.tag = "Ok" THEN wire'.bytes ELSE <<>>
          /\ pc' = IF wire'.tag = "Ok" THEN "calldata_created" ELSE "calldata_failed"
    /\ UNCHANGED <<tail, res, reenc>>

\* Call data come from outside.
CalldataReceive ==
    /\ pc = "idle"
    /\ \E raw \in CalldataRawInputs \cup SeqsUpTo(ValueRawAlphabet, 2) : input' = raw
    /\ pc' = "received"
    /\ UNCHANGED <<item, wire, tail, res, reenc>>

\* decode_calldata of the buffer under a name of the caller (kept in `tail`).
DecodeCalldata ==
    /\ pc \in {"calldata_created", "received"}
    /\ \E g \in FunNames :
          /\ tail' = g
          /\ res' = decode_calldata(g, input)
    /\ pc' = "calldata_decoded"
    /\ UNCHANGED <<item, wire, input, reenc>>

NextAbi == CreateCalldata \/ CalldataReceive \/ DecodeCalldata

SpecAbi == Init /\ [][NextAbi]_vars

(***************************************************************************)
(* The contract container                                                  *)
(* (src/crates/aeserialization/src/contract_code.rs over src/src/rlp.rs).  *)
(***************************************************************************)
CODE_TAG == 70
VSN == 3

\* struct TypeInfo, struct Code
TypeInfo(type_hash, name, payable, arg_type, out_type) ==
    [type_hash |-> type_hash, name |-> name, payable |-> payable,
     arg_type |-> arg_type, out_type |-> out_type]
Code(byte_code, payable, source_hash, compiler_version, type_info) ==
    [byte_code |-> byte_code, payable |-> payable, source_hash |-> source_hash,
     compiler_version |-> compiler_version, type_info |-> type_info]

\* Ok(v) of a from_rlp_item conversion
OkVal(v) == [tag |-> "Ok", val |-> v]

\* impl ToRlpItem for u8 (panics on 0, in ilog)
u8_to_rlp_item(n) ==
    IF usize_to_min_be_bytes_panics(n) THEN Panic ELSE ByteArray(usize_to_min_be_bytes(n))

\* impl ToRlpItem for bool
bool_to_rlp_item(b) == ByteArray(<<IF b THEN 1 ELSE 0>>)

\* impl<T: ToRlpItem> ToRlpItem for Vec<T> with T = u8: one item per byte.
vec_u8_to_rlp_item(bs) ==
    IF \E i \in 1..Len(bs) : usize_to_min_be_bytes_panics(bs[i]) THEN Panic
    ELSE List([i \in 1..Len(bs) |-> u8_to_rlp_item(bs[i])])

\* impl ToRlpItem for TypeInfo: a list that holds the list of the five fields.
type_info_to_rlp_item(ti) ==
    LET fields == <<vec_u8_to_rlp_item(ti.type_hash), vec_u8_to_rlp_item(ti.name),
                    bool_to_rlp_item(ti.payable), vec_u8_to_rlp_item(ti.arg_type),
                    vec_u8_to_rlp_item(ti.out_type)>>
    IN  IF \E i \in 1..5 : fields[i] = Panic THEN Panic
        ELSE List(<<List(fields)>>)

\* impl ToRlpItem for Code with the byte code and the compiler version in each
\* other's place.
code_to_rlp_item_swapped(c) ==
    List(<<u8_to_rlp_item(CODE_TAG), u8_to_rlp_item(VSN), ByteArray(c.source_hash),
           List(<<>>), ByteArray(c.compiler_version), ByteArray(c.byte_code),
           bool_to_rlp_item(c.payable)>>)
\* impl ToRlpItem for Code
code_to_rlp_item(c) ==
    LET infos == [i \in 1..Len(c.type_info) |-> type_info_to_rlp_item(c.type_info[i])]
    IN  IF \E i \in 1..Len(infos) : infos[i] = Panic THEN Panic
        ELSE List(<<u8_to_rlp_item(CODE_TAG), u8_to_rlp_item(VSN),
                    ByteArray(c.source_hash), List(infos), ByteArray(c.byte_code),
                    ByteArray(c.compiler_version), bool_to_rlp_item(c.payable)>>)

\* Code::serialize = ToRlpItem::serialize_rlp
code_serialize(c) ==
    CHOOSE out \in {IF it = Panic THEN Panic ELSE VOk(serialize(it)) :
                        it \in {code_to_rlp_item(c)}} : TRUE

\* RlpItem::byte_array
byte_array(it) ==
    IF it.t = "ByteArray" THEN OkVal(it.bytes) ELSE Err("InvalidBinary")

\* impl FromRlpItem for bool
bool_from_rlp_item(it) ==
    IF it.t # "ByteArray" THEN Err("InvalidBinary")
    ELSE IF it.bytes = <<0>> THEN OkVal(FALSE)
    ELSE IF it.bytes = <<1>> THEN OkVal(TRUE)
    ELSE Err("InvalidBool")

\* The first failure among the results of a struct literal's field
\* expressions, which are evaluated in the order written.
FirstFailure(rs) ==
    rs[CHOOSE i \in 1..Len(rs) : rs[i].tag # "Ok" /\ \A j \in 1..(i - 1) : rs[j].tag = "Ok"]
AllOk(rs) == \A i \in 1..Len(rs) : rs[i].tag = "Ok"

\* impl FromRlpItem for TypeInfo
type_info_from_rlp_item(it) ==
    IF it.t # "List" THEN Err("InvalidRlp")
    ELSE IF Len(it.items) # 5 THEN Err("InvalidRlp")
    ELSE LET rs == <<byte_array(it.items[1]), byte_array(it.items[2]),
                     bool_from_rlp_item(it.items[3]), byte_array(it.items[4]),
                     byte_array(it.items[5])>>
         IN  IF AllOk(rs)
             THEN OkVal(TypeInfo(rs[1].val, rs[2].val, rs[3].val, rs[4].val, rs[5].val))
             ELSE FirstFailure(rs)

\* impl<T: FromRlpItem> FromRlpItem for Vec<T> with T = TypeInfo
type_infos_from_rlp_item(it) ==
    IF it.t # "List" THEN Err("InvalidList")
    ELSE LET rs == [i \in 1..Len(it.items) |-> type_info_from_rlp_item(it.items[i])]
         IN  IF AllOk(rs) THEN OkVal([i \in 1..Len(rs) |-> rs[i].val])
             ELSE FirstFailure(rs)

\* impl FromRlpItem for Code
code_from_rlp_item(it) ==
    IF it.t # "List" THEN Err("InvalidRlp")
    ELSE IF Len(it.items) # 7 THEN Err("InvalidRlp")
    ELSE IF u8_from_rlp_item(it.items[1]).tag # "Ok" THEN u8_from_rlp_item(it.items[1])
    ELSE IF u8_from_rlp_item(it.items[1]).bytes # <<CODE_TAG>> THEN Err("InvalidRlp")
    ELSE LET rs == <<byte_array(it.items[3]), type_infos_from_rlp_item(it.items[4]),
                     byte_array(it.items[5]), byte_array(it.items[6]),
                     bool_from_rlp_item(it.items[7])>>
         IN  IF AllOk(rs)
             THEN OkVal(Code(rs[3].val, rs[5].val, rs[1].val, rs[4].val, rs[2].val))
             ELSE FirstFailure(rs)

\* Code::deserialize = FromRlpItem::deserialize_rlp
code_deserialize(bytes) ==
    CHOOSE out \in {IF r = Panic THEN Panic
                    ELSE IF r.tag # "Ok" THEN Err("InvalidRlp")
                    ELSE code_from_rlp_item(r.item) :
                        r \in {deserialize(bytes)}} : TRUE

\* Contract records: empty, short and long fields, zero bytes, and type-info
\* lists of zero, one and two entries.
CodeTypeInfos ==
    {TypeInfo(<<21, 37>>, <<>>, TRUE, <<42, 1>>, <<255, 7>>),
     TypeInfo(<<>>, <<>>, FALSE, <<>>, <<>>),
     TypeInfo(<<21, 37>>, <<>>, TRUE, <<42, 0>>, <<255, 7>>)}
CodeTypeInfoLists ==
    {<<>>} \cup {<<ti>> : ti \in CodeTypeInfos}
    \cup {<<TypeInfo(<<>>, <<>>, FALSE, <<>>, <<>>), TypeInfo(<<1>>, <<2>>, TRUE, <<3>>, <<4>>)>>}
Codes ==
    {Code(bc, p, sh, cv, tis) :
        bc \in {<<>>, <<5>>, <<0, 200>>, Rep(7, UNTAGGED_SIZE_LIMIT + 1)},
        p \in BOOLEAN,
        sh \in {<<>>, <<0>>, Rep(9, 32)},
        cv \in {<<>>, <<51, 46, 49>>},
        tis \in CodeTypeInfoLists}

\* Containers from outside, as RLP items: other tags and versions, six and
\* eight fields, fields of the wrong kind, and type-info lists whose entries
\* are lists of five fields.
CodeFieldItems ==
    {ByteArray(<<>>), ByteArray(<<0>>), ByteArray(<<1>>), ByteArray(<<2>>), ByteArray(<<VSN>>),
     ByteArray(<<CODE_TAG>>), ByteArray(<<CODE_TAG, 1>>), List(<<>>),
     List(<<List(<<ByteArray(<<21>>), ByteArray(<<>>), ByteArray(<<1>>),
                   ByteArray(<<0>>), ByteArray(<<7>>)>>)>>),
     List(<<List(<<List(<<ByteArray(<<21>>), ByteArray(<<>>), ByteArray(<<1>>),
                          ByteArray(<<0>>), ByteArray(<<7>>)>>)>>)>>),
     List(<<List(<<ByteArray(<<21>>), ByteArray(<<>>), ByteArray(<<2>>),
                   ByteArray(<<0>>), ByteArray(<<7>>)>>)>>),
     List(<<ByteArray(<<21>>)>>)}
CodeRlpItems ==
    {List(<<tg, vsn, ByteArray(<<9>>), tis, ByteArray(<<5>>), ByteArray(<<>>), p>>) :
        tg \in {ByteArray(<<CODE_TAG>>), ByteArray(<<CODE_TAG + 1>>), List(<<>>),
                ByteArray(<<CODE_TAG, 1>>)},
        vsn \in {ByteArray(<<VSN>>), ByteArray(<<VSN + 1>>), ByteArray(<<1>>), List(<<>>)},
        tis \in CodeFieldItems, p \in CodeFieldItems}
    \cup {List(<<ByteArray(<<CODE_TAG>>), ByteArray(<<VSN>>), sh, List(<<>>), bc, cv,
                 ByteArray(<<1>>)>>) :
            sh \in {ByteArray(<<9>>), List(<<>>)}, bc \in {ByteArray(<<5>>), List(<<>>)},
            cv \in {ByteArray(<<>>), List(<<>>)}}
    \cup {List(Rep(ByteArray(<<CODE_TAG>>), n)) : n \in {0, 6, 8}}
    \cup {ByteArray(<<CODE_TAG>>)}

\* Raw buffers: the encodings of those items, and encodings RlpItem::serialize
\* never writes (a one-byte payload under a header, garbage after the list, a
\* list cut short, no bytes).
CodeRawInputs ==
    {serialize(it) : it \in CodeRlpItems}
    \cup {<<>>, <<LIST_OFFSET + 8, CODE_TAG, VSN, BYTE_ARRAY_OFFSET + 1, 9, LIST_OFFSET,
              BYTE_ARRAY_OFFSET, BYTE_ARRAY_OFFSET, 1>>,
          <<LIST_OFFSET + 7, CODE_TAG, VSN, BYTE_ARRAY_OFFSET, LIST_OFFSET,
              BYTE_ARRAY_OFFSET, BYTE_ARRAY_OFFSET, 1, 0>>,
          <<LIST_OFFSET + 7, CODE_TAG, VSN, BYTE_ARRAY_OFFSET, LIST_OFFSET,
              BYTE_ARRAY_OFFSET, BYTE_ARRAY_OFFSET>>,
          <<LIST_OFFSET + 7, CODE_TAG, VSN, BYTE_ARRAY_OFFSET, LIST_OFFSET,
              BYTE_ARRAY_OFFSET, BYTE_ARRAY_OFFSET + 2, 1>>}

(***************************************************************************)
(* The contract container as a state machine.                              *)
(***************************************************************************)
\* Code::serialize on a record of the caller.
CodeSerialize ==
    /\ pc = "idle"
    /\ \E c \in Codes :
          /\ item' = c
          /\ wire' = code_serialize(c)
          /\ input' = IF wire'.tag = "Ok" THEN wire'.bytes ELSE <<>>
          /\ pc' = IF wire'.tag = "Ok" THEN "code_serialized" ELSE "code_failed"
    /\ UNCHANGED <<tail, res, reenc>>

\* A container comes from outside.
CodeReceive ==
    /\ pc = "idle"
    /\ \E raw \in CodeRawInputs : input' = raw
    /\ pc' = "received"
    /\ UNCHANGED <<item, wire, tail, res, reenc>>

\* Code::deserialize
CodeDeserialize ==
    /\ pc \in {"code_serialized", "received"}
    /\ res' = code_deserialize(input)
    /\ pc' = "code_deserialized"
    /\ UNCHANGED <<item, wire, tail, input, reenc>>

\* Code::serialize on the record a decode returned.
CodeReserialize ==
    /\ pc = "code_deserialized"
    /\ res.tag = "Ok"
    /\ reenc' = code_serialize(res.val)
    /\ pc' = "code_reserialized"
    /\ UNCHANGED <<item, wire, tail, input, res>>

NextCode == CodeSerialize \/ CodeReceive \/ CodeDeserialize \/ CodeReserialize

SpecCode == Init /\ [][NextCode]_vars

(***************************************************************************)
(* The API string encoder (src/src/api_encoder.rs).  Strings are sequences *)
(* of character codes.                                                     *)
(***************************************************************************)
Some(v) == [tag |-> "Some", val |-> v]
Underscore == 95
Pad == 61

\* enum KnownType
KnownTypes ==
    {"KeyBlockHash", "MicroBlockHash", "BlockPofHash", "BlockTxHash",
     "BlockStateHash", "Channel", "ContractBytearray", "ContractPubkey",
     "ContractStoreKey", "ContractStoreValue", "Transaction", "TxHash",
     "OraclePubkey", "OracleQuery", "OracleQueryId", "OracleResponse",
     "AccountPubkey", "Signature", "Name", "Commitment",
     "PeerPubkey", "State", "Poi", "StateTrees",
     "CallStateTree", "Bytearray"}

\* pub fn byte_size(self) -> Option<usize>
byte_size(t) ==
    CASE t = "KeyBlockHash" -> Some(32)
      [] t = "MicroBlockHash" -> Some(32)
      [] t = "BlockPofHash" -> Some(32)
      [] t = "BlockTxHash" -> Some(32)
      [] t = "BlockStateHash" -> Some(32)
      [] t = "Channel" -> Some(32)
      [] t = "ContractBytearray" -> None
      [] t = "ContractPubkey" -> Some(32)
      [] t = "ContractStoreKey" -> None
      [] t = "ContractStoreValue" -> None
      [] t = "Transaction" -> None
      [] t = "TxHash" -> Some(32)
      [] t = "OraclePubkey" -> Some(32)
      [] t = "OracleQuery" -> None
      [] t = "OracleQueryId" -> Some(32)
      [] t = "OracleResponse" -> None
      [] t = "AccountPubkey" -> Some(32)
      [] t = "Signature" -> Some(64)
      [] t = "Name" -> None
      [] t = "Commitment" -> Some(32)
      [] t = "PeerPubkey" -> Some(32)
      [] t = "State" -> Some(32)
      [] t = "Poi" -> None
      [] t = "StateTrees" -> None
      [] t = "CallStateTree" -> None
      [] t = "Bytearray" -> None

\* pub fn check_size(self, s: usize) -> bool
check_size(t, s) ==
    IF byte_size(t) = None THEN TRUE ELSE byte_size(t).val = s

\* pub fn prefix(self) -> String, as character codes
prefix(t) ==
    CASE t = "KeyBlockHash" -> <<107, 104>>  \* "kh"
      [] t = "MicroBlockHash" -> <<109, 104>>  \* "mh"
      [] t = "BlockPofHash" -> <<98, 102>>  \* "bf"
      [] t = "BlockTxHash" -> <<98, 120>>  \* "bx"
      [] t = "BlockStateHash" -> <<98, 115>>  \* "bs"
      [] t = "Channel" -> <<99, 104>>  \* "ch"
      [] t = "ContractBytearray" -> <<99, 98>>  \* "cb"
      [] t = "ContractPubkey" -> <<99, 107>>  \* "ck"
      [] t = "ContractStoreKey" -> <<99, 118>>  \* "cv"
      [] t = "ContractStoreValue" -> <<99, 116>>  \* "ct"
      [] t = "Transaction" -> <<116, 120>>  \* "tx"
      [] t = "TxHash" -> <<116, 104>>  \* "th"
      [] t = "OraclePubkey" -> <<111, 107>>  \* "ok"
      [] t = "OracleQuery" -> <<111, 118>>  \* "ov"
      [] t = "OracleQueryId" -> <<111, 113>>  \* "oq"
      [] t = "OracleResponse" -> <<111, 114>>  \* "or"
      [] t = "AccountPubkey" -> <<97, 107>>  \* "ak"
      [] t = "Signature" -> <<115, 103>>  \* "sg"
      [] t = "Name" -> <<99, 109>>  \* "cm"
      [] t = "Commitment" -> <<112, 112>>  \* "pp"
      [] t = "PeerPubkey" -> <<110, 109>>  \* "nm"
      [] t = "State" -> <<115, 116>>  \* "st"
      [] t = "Poi" -> <<112, 105>>  \* "pi"
      [] t = "StateTrees" -> <<115, 115>>  \* "ss"
      [] t = "CallStateTree" -> <<99, 115>>  \* "cs"
      [] t = "Bytearray" -> <<98, 97>>  \* "ba"

\* pub fn from_prefix(prefix: &str) -> Option<KnownType>
from_prefix(pfx) ==
    CASE pfx = <<107, 104>> -> Some("KeyBlockHash")
      [] pfx = <<109, 104>> -> Some("MicroBlockHash")
      [] pfx = <<98, 102>> -> Some("BlockPofHash")
      [] pfx = <<98, 120>> -> Some("BlockTxHash")
      [] pfx = <<98, 115>> -> Some("BlockStateHash")
      [] pfx = <<99, 104>> -> Some("Channel")
      [] pfx = <<99, 98>> -> Some("ContractBytearray")
      [] pfx = <<99, 107>> -> Some("ContractPubkey")
      [] pfx = <<99, 118>> -> Some("ContractStoreKey")
      [] pfx = <<99, 116>> -> Some("ContractStoreValue")
      [] pfx = <<116, 120>> -> Some("Transaction")
      [] pfx = <<116, 104>> -> Some("TxHash")
      [] pfx = <<111, 107>> -> Some("OraclePubkey")
      [] pfx = <<111, 118>> -> Some("OracleQuery")
      [] pfx = <<111, 113>> -> Some("OracleQueryId")
      [] pfx = <<111, 114>> -> Some("OracleResponse")
      [] pfx = <<97, 107>> -> Some("AccountPubkey")
      [] pfx = <<115, 103>> -> Some("Signature")
      [] pfx = <<99, 109>> -> Some("Name")
      [] pfx = <<112, 112>> -> Some("Commitment")
      [] pfx = <<110, 109>> -> Some("PeerPubkey")
      [] pfx = <<115, 116>> -> Some("State")
      [] pfx = <<112, 105>> -> Some("Poi")
      [] pfx = <<115, 115>> -> Some("StateTrees")
      [] pfx = <<99, 115>> -> Some("CallStateTree")
      [] pfx = <<98, 97>> -> Some("Bytearray")
      [] OTHER -> None

\* fn to_id_tag(self) -> Option<id::Tag>
to_id_tag(t) ==
    CASE t = "AccountPubkey" -> Some(Tag_Account)
      [] t = "Channel" -> Some(Tag_Channel)
      [] t = "Commitment" -> Some(Tag_Commitment)
      [] t = "ContractPubkey" -> Some(Tag_Contract)
      [] t = "Name" -> Some(Tag_Name)
      [] t = "OraclePubkey" -> Some(Tag_Oracle)
      [] OTHER -> None

\* fn from_id_tag(tag: id::Tag) -> KnownType
from_id_tag(tg) ==
    CASE tg = Tag_Account -> "AccountPubkey"
      [] tg = Tag_Channel -> "Channel"
      [] tg = Tag_Commitment -> "Commitment"
      [] tg = Tag_Contract -> "ContractPubkey"
      [] tg = Tag_Name -> "Name"
      [] tg = Tag_Oracle -> "OraclePubkey"

\* pub fn encoding(self) -> Encoding
encoding(t) ==
    CASE t = "KeyBlockHash" -> "Base58"
      [] t = "MicroBlockHash" -> "Base58"
      [] t = "BlockPofHash" -> "Base58"
      [] t = "BlockTxHash" -> "Base58"
      [] t = "BlockStateHash" -> "Base58"
      [] t = "Channel" -> "Base58"
      [] t = "ContractBytearray" -> "Base58"
      [] t = "ContractPubkey" -> "Base64"
      [] t = "ContractStoreKey" -> "Base64"
      [] t = "ContractStoreValue" -> "Base64"
      [] t = "Transaction" -> "Base64"
      [] t = "TxHash" -> "Base58"
      [] t = "OraclePubkey" -> "Base58"
      [] t = "OracleQuery" -> "Base64"
      [] t = "OracleQueryId" -> "Base58"
      [] t = "OracleResponse" -> "Base64"
      [] t = "AccountPubkey" -> "Base58"
      [] t = "Signature" -> "Base58"
      [] t = "Name" -> "Base58"
      [] t = "Commitment" -> "Base58"
      [] t = "PeerPubkey" -> "Base58"
      [] t = "State" -> "Base64"
      [] t = "Poi" -> "Base64"
      [] t = "StateTrees" -> "Base64"
      [] t = "CallStateTree" -> "Base64"
      [] t = "Bytearray" -> "Base64"

\* The alphabet of bs58 (Bitcoin): digits and letters without 0, O, I and l.
Base58Alphabet ==
    <<49, 50, 51, 52, 53, 54, 55, 56, 57, 65, 66, 67, 68, 69, 70, 71,
      72, 74, 75, 76, 77, 78, 80, 81, 82, 83, 84, 85, 86, 87, 88, 89,
      90, 97, 98, 99, 100, 101, 102, 103, 104, 105, 106, 107, 109, 110, 111, 112,
      113, 114, 115, 116, 117, 118, 119, 120, 121, 122>>

\* The alphabet of base64 STANDARD: A-Z, a-z, 0-9, + and /.
Base64Alphabet ==
    <<65, 66, 67, 68, 69, 70, 71, 72, 73, 74, 75, 76, 77, 78, 79, 80,
      81, 82, 83, 84, 85, 86, 87, 88, 89, 90, 97, 98, 99, 100, 101, 102,
      103, 104, 105, 106, 107, 108, 109, 110, 111, 112, 113, 114, 115, 116, 117, 118,
      119, 120, 121, 122, 48, 49, 50, 51, 52, 53, 54, 55, 56, 57, 43, 47>>

\* The first index of s that does not hold z (Len(s) + 1 if there is none).
FirstOther(s, z) ==
    IF \A i \in 1..Len(s) : s[i] = z THEN Len(s) + 1
    ELSE CHOOSE i \in 1..Len(s) : s[i] # z /\ \A j \in 1..(i - 1) : s[j] = z
LeadingCount(s, z) == FirstOther(s, z) - 1
StripZeros(s) == SubSeq(s, FirstOther(s, 0), Len(s))

\* Long division of the digits ds[lo..hi] (base `from`, most significant
\* first) by `to`, with `rem` carried in: the quotient digits and the
\* remainder.  The range is halved, the remainder passes from left to right.
RECURSIVE DivBlock(_, _, _, _, _, _)
DivBlock(ds, from, to, lo, hi, rem) ==
    IF lo > hi THEN [q |-> <<>>, r |-> rem]
    ELSE IF lo = hi
    THEN [q |-> <<(rem * from + ds[lo]) \div to>>, r |-> (rem * from + ds[lo]) % to]
    ELSE CHOOSE out \in
            {CHOOSE o2 \in
                {[q |-> left.q \o right.q, r |-> right.r] :
                    right \in {DivBlock(ds, from, to, ((lo + hi) \div 2) + 1, hi, left.r)}} : TRUE :
                left \in {DivBlock(ds, from, to, lo, (lo + hi) \div 2, rem)}} : TRUE

\* The digits of a number in base `to`, given its digits in base `from`
\* without leading zero: repeated division, least significant digit first out.
RECURSIVE ConvertChunks(_, _, _)
ConvertChunks(ds, from, to) ==
    IF ds = <<>> THEN <<>>
    ELSE CHOOSE out \in {ConvertChunks(StripZeros(d.q), from, to) \o <<d.r>> :
                            d \in {DivBlock(ds, from, to, 1, Len(ds), 0)}} : TRUE
\* The division is by to^3, and each remainder gives three digits.
ConvertBase(ds, from, to) ==
    CHOOSE out \in
        {StripZeros([i \in 1..(3 * Len(big)) |->
                        CASE (i - 1) % 3 = 0 -> big[((i - 1) \div 3) + 1] \div (to * to)
                          [] (i - 1) % 3 = 1 -> (big[((i - 1) \div 3) + 1] \div to) % to
                          [] OTHER -> big[((i - 1) \div 3) + 1] % to]) :
            big \in {ConvertChunks(ds, from, to * to * to)}} : TRUE

\* bs58::encode(data).into_string(): one '1' per leading zero byte, then the
\* base-58 digits of the rest.
bs58_encode(data) ==
    CHOOSE out \in
        {Rep(Base58Alphabet[1], LeadingCount(data, 0))
            \o [i \in 1..Len(digits) |-> Base58Alphabet[digits[i] + 1]] :
            digits \in {ConvertBase(StripZeros(data), 256, 58)}} : TRUE

\* bs58::decode(data).into_vec().ok()
bs58_decode(str) ==
    IF \E i \in 1..Len(str) : \A k \in 1..58 : Base58Alphabet[k] # str[i] THEN None
    ELSE CHOOSE out \in
            {Some(Rep(0, LeadingCount(digits, 0)) \o ConvertBase(StripZeros(digits), 58, 256)) :
                digits \in {[i \in 1..Len(str) |->
                               (CHOOSE k \in 1..58 : Base58Alphabet[k] = str[i]) - 1]}} : TRUE

\* base64 STANDARD.encode(data): three bytes per four characters, padded.
RECURSIVE base64_encode(_)
base64_encode(data) ==
    IF data = <<>> THEN <<>>
    ELSE IF Len(data) = 1
    THEN <<Base64Alphabet[(data[1] \div 4) + 1], Base64Alphabet[(data[1] % 4) * 16 + 1],
           Pad, Pad>>
    ELSE IF Len(data) = 2
    THEN <<Base64Alphabet[(data[1] \div 4) + 1],
           Base64Alphabet[(data[1] % 4) * 16 + (data[2] \div 16) + 1],
           Base64Alphabet[(data[2] % 16) * 4 + 1], Pad>>
    ELSE IF Len(data) = 3
    THEN <<Base64Alphabet[(data[1] \div 4) + 1],
           Base64Alphabet[(data[1] % 4) * 16 + (data[2] \div 16) + 1],
           Base64Alphabet[(data[2] % 16) * 4 + (data[3] \div 64) + 1],
           Base64Alphabet[(data[3] % 64) + 1]>>
    ELSE base64_encode(SubSeq(data, 1, 3 * ((Len(data) + 5) \div 6)))
            \o base64_encode(SubSeq(data, 3 * ((Len(data) + 5) \div 6) + 1, Len(data)))

IsBase64(c) == \E k \in 1..64 : Base64Alphabet[k] = c
Base64Index(c) == (CHOOSE k \in 1..64 : Base64Alphabet[k] = c) - 1

\* One quadruple; padding is accepted in the last one only, in canonical form
\* and with no set bits beyond the last byte.
base64_quad(str, last) ==
    IF ~ (IsBase64(str[1]) /\ IsBase64(str[2])) THEN None
    ELSE IF last /\ str[3] = Pad /\ str[4] = Pad
    THEN IF Base64Index(str[2]) % 16 # 0 THEN None
         ELSE Some(<<Base64Index(str[1]) * 4 + (Base64Index(str[2]) \div 16)>>)
    ELSE IF ~ IsBase64(str[3]) THEN None
    ELSE IF last /\ str[4] = Pad
    THEN IF Base64Index(str[3]) % 4 # 0 THEN None
         ELSE Some(<<Base64Index(str[1]) * 4 + (Base64Index(str[2]) \div 16),
                     (Base64Index(str[2]) % 16) * 16 + (Base64Index(str[3]) \div 4)>>)
    ELSE IF ~ IsBase64(str[4]) THEN None
    ELSE Some(<<Base64Index(str[1]) * 4 + (Base64Index(str[2]) \div 16),
                (Base64Index(str[2]) % 16) * 16 + (Base64Index(str[3]) \div 4),
                (Base64Index(str[3]) % 4) * 64 + Base64Index(str[4])>>)

RECURSIVE base64_quads(_, _)
base64_quads(str, last) ==
    IF Len(str) = 4 THEN base64_quad(str, last)
    ELSE CHOOSE out \in
            {IF left = None THEN None
             ELSE CHOOSE o2 \in
                    {IF right = None THEN None ELSE Some(left.val \o right.val) :
                        right \in {base64_quads(
                                      SubSeq(str, 4 * ((Len(str) + 4) \div 8) + 1, Len(str)),
                                      last)}} : TRUE :
                left \in {base64_quads(SubSeq(str, 1, 4 * ((Len(str) + 4) \div 8)), FALSE)}} : TRUE

\* base64 STANDARD.decode(data).ok()
base64_decode(str) ==
    IF str = <<>> THEN Some(<<>>)
    ELSE IF Len(str) % 4 # 0 THEN None
    ELSE base64_quads(str, TRUE)

\* sha256::digest: the lowercase hexadecimal text of the hash of the data.  The
\* hash itself is a 16-bit stand-in for SHA-256 (four characters of text).
RECURSIVE hash_mix(_)
hash_mix(data) ==
    IF data = <<>> THEN 7
    ELSE IF Len(data) = 1 THEN (data[1] * 131 + 1) % 65536
    ELSE (hash_mix(SubSeq(data, 1, Len(data) \div 2)) * 257
          + hash_mix(SubSeq(data, (Len(data) \div 2) + 1, Len(data))) * 3
          + Len(data)) % 65536
HexDigits == <<48, 49, 50, 51, 52, 53, 54, 55, 56, 57, 97, 98, 99, 100, 101, 102>>
digest(data) ==
    CHOOSE out \in {<<HexDigits[(h \div 4096) + 1], HexDigits[((h \div 256) % 16) + 1],
                      HexDigits[((h \div 16) % 16) + 1], HexDigits[(h % 16) + 1]>> :
                        h \in {hash_mix(data)}} : TRUE

\* fn make_check(self, data: &[u8]) -> Bytes: the first four characters of the
\* text of the digest of the text of the digest.
make_check(data) == SubSeq(digest(digest(data)), 1, 4)

\* fn add_check(self, data: &[u8]) -> Bytes
add_check(data) == data \o make_check(data)

\* Encoding::encode, Encoding::decode
encoding_encode(enc, data) ==
    IF enc = "Base58" THEN bs58_encode(data) ELSE base64_encode(data)
encoding_decode(enc, str) ==
    IF enc = "Base58" THEN bs58_decode(str) ELSE base64_decode(str)

\* fn encode_with_check(self, data: &[u8]) -> String
encode_with_check(enc, data) == encoding_encode(enc, add_check(data))

\* pub fn encode_data(t: KnownType, payload: &[u8]) -> String
encode_data(t, payload) ==
    prefix(t) \o <<Underscore>> \o encode_with_check(encoding(t), payload)

\* pub fn encode_id(id: &id::Id) -> String
encode_id(id) == encode_data(from_id_tag(id.idtag), id.val)

\* Ok((tp, decoded)) of decode
OkDecoded(tp, bytes) == [tag |-> "Ok", tp |-> tp, bytes |-> bytes]

\* fn split_prefix(data: &str) -> Result<(String, String), DecodingErr>:
\* split_once at the first '_'.
split_prefix(data) ==
    IF \A i \in 1..Len(data) : data[i] # Underscore THEN Err("MissingPrefix")
    ELSE LET at == CHOOSE i \in 1..Len(data) :
                      data[i] = Underscore /\ \A j \in 1..(i - 1) : data[j] # Underscore
         IN  IF at - 1 # 2 THEN Err("InvalidPrefix")
             ELSE [tag |-> "Ok", pfx |-> SubSeq(data, 1, at - 1),
                   payload |-> SubSeq(data, at + 1, Len(data))]

\* fn decode_check(tp: KnownType, data: &str) -> Result<Bytes, DecodingErr>:
\* `dec.len() - 4` and the slices panic on fewer than 4 bytes, assert_eq!
\* panics on a check that differs.
decode_check(tp, data) ==
    CHOOSE out \in
        {IF dec = None THEN Err("InvalidEncoding")
         ELSE IF Len(dec.val) < 4 THEN Panic
         ELSE IF SubSeq(dec.val, Len(dec.val) - 3, Len(dec.val))
                    # make_check(SubSeq(dec.val, 1, Len(dec.val) - 4))
         THEN Panic
         ELSE OkVal(SubSeq(dec.val, 1, Len(dec.val) - 4)) :
            dec \in {encoding_decode(encoding(tp), data)}} : TRUE

\* decode without the size check.
decode_any_size(data) ==
    CHOOSE out \in
        {IF sp.tag # "Ok" THEN sp
         ELSE IF from_prefix(sp.pfx) = None THEN Err("InvalidPrefix")
         ELSE CHOOSE o2 \in
                {IF decoded.tag # "Ok" THEN decoded
                 ELSE OkDecoded(from_prefix(sp.pfx).val, decoded.val) :
                    decoded \in {decode_check(from_prefix(sp.pfx).val, sp.payload)}} : TRUE :
            sp \in {split_prefix(data)}} : TRUE
\* pub fn decode(data: &str) -> Result<(KnownType, Bytes), DecodingErr>
decode(data) ==
    CHOOSE out \in
        {IF sp.tag # "Ok" THEN sp
         ELSE IF from_prefix(sp.pfx) = None THEN Err("InvalidPrefix")
         ELSE CHOOSE o2 \in
                {IF decoded.tag # "Ok" THEN decoded
                 ELSE IF ~ check_size(from_prefix(sp.pfx).val, Len(decoded.val))
                 THEN Err("IncorrectSize")
                 ELSE OkDecoded(from_prefix(sp.pfx).val, decoded.val) :
                    decoded \in {decode_check(from_prefix(sp.pfx).val, sp.payload)}} : TRUE :
            sp \in {split_prefix(data)}} : TRUE

\* pub fn decode_id(allowed_types: &[KnownType], data: &str) -> Result<id::Id, DecodingErr>
decode_id(allowed_types, data) ==
    CHOOSE out \in
        {IF d.tag # "Ok" THEN d
         ELSE IF Len(d.bytes) # 32 THEN Err("InvalidEncoding")
         ELSE IF d.tp \notin allowed_types THEN Err("InvalidPrefix")
         ELSE IF to_id_tag(d.tp) = None THEN Err("InvalidPrefix")
         ELSE OkVal(Id(to_id_tag(d.tp).val, d.bytes)) :
            d \in {decode(data)}} : TRUE

\* Payloads: none, short ones with leading and trailing zero bytes, and lengths
\* on both sides of the fixed sizes 32 and 64.
ApiPayloads ==
    {<<>>, <<0>>, <<1>>, <<0, 0, 255>>, <<255, 0>>, <<104, 101, 108, 108, 111>>,
     Rep(9, 31), Rep(0, 32), Rep(7, 32), <<1, 2, 3>> \o Rep(0, 29), Rep(9, 33),
     Rep(5, 63), Rep(5, 64), Rep(0, 64)}

\* Allow lists of decode_id.
AllowLists ==
    {{}, {"AccountPubkey"}, {"Name", "Commitment"}, {"ContractPubkey", "OraclePubkey", "Channel"},
     {"Signature", "Transaction", "AccountPubkey"}, KnownTypes}

\* The last character of a string replaced by another one of both alphabets.
Garbled(str) == [str EXCEPT ![Len(str)] = IF str[Len(str)] = 65 THEN 66 ELSE 65]

\* Strings from outside: encodings with a garbled check, with a prefix that
\* is not in the table, without separator, with fewer than four bytes, with
\* characters of neither alphabet.
ApiRawStrings ==
    {Garbled(encode_data(t, p)) :
        t \in {"AccountPubkey", "ContractPubkey", "Transaction", "Name", "Signature"},
        p \in {<<1>>, Rep(7, 32)}}
    \cup {prefix(t) \o <<Underscore>> \o encoding_encode(encoding(t), bs) :
            t \in {"AccountPubkey", "Transaction", "Name", "Bytearray"},
            bs \in {<<>>, <<1>>, <<1, 2, 3>>, <<1, 2, 3, 4>>, <<1, 2, 3, 4, 5>>,
                    Rep(7, 32) \o <<48, 48, 48, 48>>}}
    \cup {pfx \o rest :
            pfx \in {<<>>, <<97>>, <<97, 107>>, <<122, 122>>, <<97, 107, 107>>, <<65, 75>>},
            rest \in {<<>>, <<Underscore>>, <<Underscore, 50, 50>>, <<Underscore, 48>>,
                      <<Underscore, Underscore>>, <<Underscore, 65, 65, 65, 65>>,
                      <<50, 50>>}}
    \cup {<<116, 120, Underscore>> \o rest :
            rest \in {<<65>>, <<65, 65, Pad>>, <<65, 66, Pad, Pad>>, <<65, 65, 66, Pad>>,
                      <<Pad, Pad, Pad, Pad>>, <<65, 65, 65, 65, 65, 65, 65, 65>>}}

(***************************************************************************)
(* The API encoder as a state machine: item holds what was encoded, input  *)
(* the string, tail the allow list of the last decode_id.                  *)
(***************************************************************************)
\* encode_data on a type and a payload of the caller.
EncodeData ==
    /\ pc = "idle"
    /\ \E t \in KnownTypes, p \in ApiPayloads :
          /\ item' = [tp |-> t, payload |-> p]
          /\ wire' = encode_data(t, p)
          /\ input' = wire'
    /\ pc' = "encoded"
    /\ UNCHANGED <<tail, res, reenc>>

\* encode_id on an identifier of the caller.
EncodeId ==
    /\ pc = "idle"
    /\ \E id \in Ids :
          /\ item' = id
          /\ wire' = encode_id(id)
          /\ input' = wire'
    /\ pc' = "id_encoded"
    /\ UNCHANGED <<tail, res, reenc>>

\* A string comes from outside.
ApiReceive ==
    /\ pc = "idle"
    /\ \E raw \in ApiRawStrings : input' = raw
    /\ pc' = "received"
    /\ UNCHANGED <<item, wire, tail, res, reenc>>

\* api_encoder::decode
Decode ==
    /\ pc \in {"encoded", "id_encoded", "received"}
    /\ res' = decode(input)
    /\ pc' = "decoded"
    /\ UNCHANGED <<item, wire, tail, input, reenc>>

\* api_encoder::decode_id under an allow list of the caller.
DecodeId ==
    /\ pc \in {"encoded", "id_encoded", "received"}
    /\ \E allowed \in AllowLists :
          /\ tail' = allowed
          /\ res' = decode_id(allowed, input)
    /\ pc' = "id_decoded"
    /\ UNCHANGED <<item, wire, input, reenc>>

NextApi == EncodeData \/ EncodeId \/ ApiReceive \/ Decode \/ DecodeId

SpecApi == Init /\ [][NextApi]_vars

(***************************************************************************)
(* The reference framing of section 4.1, written from its rules: K is the  *)
(* least number of base-256 digits of N, most significant digit first.     *)
(***************************************************************************)
MinWidth(n) == CHOOSE k \in 1..3 : n < 256^k /\ (k = 1 \/ n >= 256^(k - 1))
BigEndian(n, k) == [i \in 1..k |-> (n \div 256^(k - i)) % 256]

ReferenceFrame(short, long, payload) ==
    IF Len(payload) <= 55
    THEN <<short + Len(payload)>> \o payload
    ELSE <<long + MinWidth(Len(payload))>>
         \o BigEndian(Len(payload), MinWidth(Len(payload))) \o payload

RECURSIVE ReferenceFraming(_)
RECURSIVE ReferenceChildren(_)
ReferenceChildren(its) ==
    IF its = <<>> THEN <<>>
    ELSE ReferenceFraming(Head(its)) \o ReferenceChildren(Tail(its))

ReferenceFraming(x) ==
    IF x.t = "ByteArray"
    THEN IF Len(x.bytes) = 1 /\ x.bytes[1] <= 127
         THEN x.bytes
         ELSE ReferenceFrame(128, 183, x.bytes)
    ELSE ReferenceFrame(192, 247, ReferenceChildren(x.items))

(***************************************************************************)
(* What a buffer declares, read off its header bytes alone.                *)
(***************************************************************************)
IsTaggedTag(tg) == tg \in TaggedTags
IsListTag(tg) == tg >= LIST_OFFSET

\* The header of the first item of b: its width and the payload length it
\* declares; known is FALSE when the size field is cut short or starts with zero.
Header(b) ==
    LET tg == b[1]
        w == SizeFieldWidth(tg)
    IN  IF tg <= UNTAGGED_LIMIT THEN [known |-> TRUE, width |-> 0, len |-> 1]
        ELSE IF tg <= BYTE_ARRAY_UNTAGGED_LIMIT
        THEN [known |-> TRUE, width |-> 1, len |-> tg - BYTE_ARRAY_OFFSET]
        ELSE IF tg >= LIST_OFFSET /\ tg <= LIST_UNTAGGED_LIMIT
        THEN [known |-> TRUE, width |-> 1, len |-> tg - LIST_OFFSET]
        ELSE IF Len(b) < 1 + w \/ b[2] = 0
        THEN [known |-> FALSE, width |-> 1 + w, len |-> 0]
        ELSE [known |-> TRUE, width |-> 1 + w, len |-> from_be_bytes(SubSeq(b, 2, 1 + w))]

\* The first item of b declares more payload than b holds after its header.
HeaderOverflows(b) ==
    Header(b).known /\ Header(b).width + Header(b).len > Len(b)

\* Some item of b, the first one or one nested in a list or following a sibling
\* inside a list, declares more payload than remains after its header.
RECURSIVE ItemOverflows(_)
RECURSIVE PayloadOverflows(_)
PayloadOverflows(p) ==
    /\ p # <<>>
    /\ \/ ItemOverflows(p)
       \/ /\ Header(p).known
          /\ ~HeaderOverflows(p)
          /\ PayloadOverflows(SubSeq(p, Header(p).width + Header(p).len + 1, Len(p)))

ItemOverflows(b) ==
    /\ b # <<>>
    /\ \/ HeaderOverflows(b)
       \/ /\ IsListTag(b[1])
          /\ Header(b).known
          /\ PayloadOverflows(SubSeq(b, Header(b).width + 1, Header(b).width + Header(b).len))

\* A tagged-length tag whose size field is complete and starts with 0x00.
LeadingZeroField(b) ==
    /\ b # <<>>
    /\ IsTaggedTag(b[1])
    /\ Len(b) >= 1 + SizeFieldWidth(b[1])
    /\ b[2] = 0

(***************************************************************************)
(* Claims about the RLP codec.                                             *)
(***************************************************************************)

\* C1: for every RlpItem x (a byte array of any length, or a list nested to any
\* depth), RlpItem::deserialize(RlpItem::serialize(x)) returns Ok(x).
C1_RlpRoundTrip ==
    (pc = "deserialized" /\ FromItem /\ tail = <<>>) => res = OkItem(item)

\* A nested list in the long form has been serialized and decoded back.
C1_Witness ==
    /\ pc = "deserialized" /\ FromItem /\ tail = <<>>
    /\ item.t = "List" /\ wire[1] = LIST_TAGGED_OFFSET + 1
    /\ res = OkItem(item)

\* C3 (as claimed): whenever RlpItem::deserialize(b) returns Ok(x),
\* RlpItem::serialize(x) equals b.
C3_RlpCanonical ==
    (pc = "reserialized" /\ FromOutside) => reenc = input

\* C5: try_deserialize(serialize(x) ++ r) returns Ok((x, r)); deserialize of the
\* same buffer returns Ok(x) iff r is empty and otherwise
\* Err(Trailing{input: serialize(x) ++ r, undecoded: r, decoded: x}).
C5_PrefixAndTrailing ==
    /\ (pc = "try_deserialized" /\ FromItem) => res = OkRest(item, tail)
    /\ (pc = "deserialized" /\ FromItem) =>
          /\ input = wire \o tail
          /\ (res = OkItem(item)) <=> (tail = <<>>)
          /\ tail # <<>> => res = Err(Trailing(wire \o tail, tail, item))

\* A list followed by other bytes has been refused as Trailing.
C5_Witness ==
    /\ pc = "deserialized" /\ FromItem /\ tail # <<>> /\ item.t = "List"
    /\ res.tag = "Err" /\ res.err.kind = "Trailing"

\* C6: RlpItem::serialize is total and produces exactly the reference framing
\* (byte itself; [128+N] ++ bytes; [183+K] ++ bigendian_K(N) ++ bytes; [192+P] ++
\* children; [247+K] ++ bigendian_K(P) ++ children), so the empty byte array is
\* [0x80], the empty list is [0xC0], and 55/56 are on opposite sides of the switch.
C6_ReferenceFraming ==
    (pc = "serialized") =>
        /\ IsBytes(wire)
        /\ wire = ReferenceFraming(item)
        /\ item = ByteArray(<<>>) => wire = <<128>>
        /\ item = List(<<>>) => wire = <<192>>

\* A list whose children take 56 bytes has been serialized in the long form.
C6_Witness ==
    /\ pc = "serialized" /\ item.t = "List"
    /\ wire[1] = LIST_TAGGED_OFFSET /\ wire[2] = UNTAGGED_SIZE_LIMIT + 1

\* C9 (as claimed): whenever an item's declared payload length exceeds the bytes
\* that remain after its header, in any of the four length-prefixed forms, at
\* top level or nested in a list, RlpItem::deserialize returns
\* Err(SizeOverflow{..}) as an error value.
C9_SizeOverflowReported ==
    (pc = "deserialized" /\ FromOutside /\ ItemOverflows(input)) =>
        (res.tag = "Err" /\ res.err.kind = "SizeOverflow")

\* C10: for every input whose first byte is a tagged-length tag and whose size
\* field, fully present, starts with 0x00, RlpItem::deserialize returns
\* Err(LeadingZerosInSize{position: 1}) and no item is decoded.
C10_LeadingZerosRejected ==
    /\ (pc = "deserialized" /\ FromOutside /\ LeadingZeroField(input)) =>
          res = Err(LeadingZerosInSize(1))
    /\ (pc = "try_deserialized" /\ FromOutside /\ LeadingZeroField(input)) =>
          res.tag # "Ok"

\* The list of the codec's own test (tag 249, size bytes 0 and 1) has been refused.
C10_Witness ==
    /\ pc = "deserialized" /\ FromOutside /\ LeadingZeroField(input)
    /\ input[1] = LIST_TAGGED_OFFSET + 1 /\ Len(input) > 3
    /\ res = Err(LeadingZerosInSize(1))

(***************************************************************************)
(* Claims about the value codec.                                           *)
(***************************************************************************)
\* A value that Value::serialize has no documented reason to refuse: variant
\* tag and arity consistent, empty StoreMap cache, homogeneous non-Map keys and
\* homogeneous values in maps, tuple and variant types below the size limit.
RECURSIVE WellFormedType(_)
WellFormedType(ty) ==
    CASE ty.k \in {"Tuple", "Variant"} ->
            /\ Len(ty.elems) < 256
            /\ \A i \in 1..Len(ty.elems) : WellFormedType(ty.elems[i])
      [] ty.k = "List" -> WellFormedType(ty.elem)
      [] ty.k = "Map" -> WellFormedType(ty.key) /\ WellFormedType(ty.val)
      [] OTHER -> TRUE

RECURSIVE WellFormed(_)
WellFormed(v) ==
    CASE v.t \in {"Tuple", "List"} -> \A i \in 1..Len(v.elems) : WellFormed(v.elems[i])
      [] v.t = "Typerep" -> WellFormedType(v.ty)
      [] v.t = "StoreMap" -> v.cache = <<>>
      [] v.t = "Variant" ->
            /\ v.vtag < Len(v.arities)
            /\ Len(v.values) = v.arities[v.vtag + 1]
            /\ \A i \in 1..Len(v.values) : WellFormed(v.values[i])
      [] v.t = "Map" ->
            \A i \in 1..Len(v.entries) :
                /\ v.entries[i].key.t # "Map"
                /\ v.entries[i].key.t = v.entries[1].key.t
                /\ v.entries[i].val.t = v.entries[1].val.t
                /\ WellFormed(v.entries[i].key)
                /\ WellFormed(v.entries[i].val)
      [] OTHER -> TRUE

\* bs is the RLP encoding of a byte array holding the big-endian bytes of n.
RlpByteArrayOf(n, bs) ==
    LET d == deserialize(bs)
    IN  /\ d.tag = "Ok"
        /\ d.item.t = "ByteArray"
        /\ from_be_bytes(d.item.bytes) = n
        /\ ReferenceFraming(d.item) = bs

\* bs is the integer framing of n: one byte (s<<7)|(m<<1) for magnitude m < 64,
\* else 0x6F or 0xEF and the RLP byte array of m - 64.
IntegerFramed(n, bs) ==
    LET m == IF n < 0 THEN -n ELSE n
        s == IF n < 0 THEN 1 ELSE 0
    IN  IF m < 64 THEN bs = <<s * 128 + m * 2>>
        ELSE /\ bs # <<>>
             /\ bs[1] = (IF s = 1 THEN 239 ELSE 111)
             /\ RlpByteArrayOf(m - 64, Tail(bs))

\* bs is long_tag, then count framed by Framed, then body.
LongFramed(bs, long_tag, Framed(_, _), count, body) ==
    LET k == Len(bs) - 1 - Len(body)
    IN  /\ k >= 1
        /\ bs[1] = long_tag
        /\ Framed(count, SubSeq(bs, 2, 1 + k))
        /\ SubSeq(bs, 2 + k, Len(bs)) = body

\* bs is the short or long framing of a String, Tuple or List of length N whose
\* payload (the bytes, or the elements' encodings) is body.
ShortLongFramed(v, bs, body) ==
    CASE v.t = "String" ->
            LET N == Len(v.bytes)
            IN  IF N = 0 THEN bs = <<95>>
                ELSE IF N <= 63 THEN bs = <<N * 4 + 1>> \o body
                ELSE LongFramed(bs, 1, IntegerFramed, N - 64, body)
      [] v.t = "Tuple" ->
            LET N == Len(v.elems)
            IN  IF N = 0 THEN bs = <<63>>
                ELSE IF N <= 15 THEN bs = <<N * 16 + 11>> \o body
                ELSE LongFramed(bs, 11, RlpByteArrayOf, N - 16, body)
      [] v.t = "List" ->
            LET N == Len(v.elems)
            IN  IF N <= 15 THEN bs = <<N * 16 + 3>> \o body
                ELSE LongFramed(bs, 31, RlpByteArrayOf, N - 16, body)

\* The payload of a String, Tuple or List, when its elements serialize.
PayloadOf(v) == IF v.t = "String" THEN VOk(v.bytes) ELSE value_serialize_all(v.elems)

\* C2 (as claimed): for every well-formed Value v (every variant, nested
\* included), Value::serialize(v) is Ok(b) and Value::deserialize(b) is Ok(v).
C2_ValueRoundTrip ==
    (pc \in {"serialized", "failed"} /\ WellFormed(item)) =>
        /\ wire.tag = "Ok"
        /\ value_deserialize(wire.bytes) = OkItem(item)

\* C4 (as claimed): whenever Value::deserialize(b) returns Ok(v),
\* Value::serialize(v) returns Ok(b).
C4_ValueCanonical ==
    (pc = "reserialized" /\ FromOutside) => reenc = VOk(input)

\* C7 (as claimed): an Integer of magnitude m < 64 serializes to the single byte
\* (s<<7)|(m<<1), one of magnitude m >= 64 to 0x6F / 0xEF followed by the RLP
\* byte-array encoding of the big-endian bytes of m - 64, and every Integer,
\* -65, -64, -63, 0, 63, 64 and 65 among them, round-trips.
C7_IntegerFraming ==
    (pc \in {"serialized", "failed"} /\ item.t = "Integer") =>
        /\ wire.tag = "Ok"
        /\ IntegerFramed(item.n, wire.bytes)
        /\ value_deserialize(wire.bytes) = OkItem(item)

\* C8 (as claimed): Strings, Tuples and Lists switch between the short and the
\* long form at 63/64 and 15/16 with the documented tags, and each form, the
\* threshold lengths 64 and 16 included, is produced without failure and
\* decodes back to the original value.
C8_ShortLongFraming ==
    (/\ pc \in {"serialized", "failed"}
     /\ item.t \in {"String", "Tuple", "List"}
     /\ PayloadOf(item).tag = "Ok") =>
        /\ wire.tag = "Ok"
        /\ ShortLongFramed(item, wire.bytes, PayloadOf(item).bytes)
        /\ value_deserialize(wire.bytes) = OkItem(item)

(***************************************************************************)
(* Error handling of the decoders.                                         *)
(***************************************************************************)
\* C11 (as claimed): on a zero-length input both RlpItem::deserialize and
\* RlpItem::try_deserialize return Err(Empty).
C11_EmptyInput ==
    (pc \in {"deserialized", "try_deserialized"} /\ FromOutside /\ input = <<>>) =>
        res = Err(Empty)

\* C12 (as claimed): for every byte sequence b, Value::deserialize(b),
\* Value::try_deserialize(b) and Type::deserialize(b) return Ok or an Err value;
\* no input makes them abort.
C12_DecodersNeverAbort ==
    (pc \in {"deserialized", "try_deserialized", "type_deserialized"} /\ FromOutside) =>
        res.tag \in {"Ok", "Err"}

(***************************************************************************)
(* Refusals of Value::serialize.                                           *)
(***************************************************************************)
\* The refusal documented for the entries of a map, "" when there is none.
MapRefusalOf(m) ==
    IF m = <<>> THEN ""
    ELSE IF \E i \in 1..Len(m) : m[i].key.t = "Map" THEN "MapAsKeyType"
    ELSE IF \E i, j \in 1..Len(m) : m[i].key.t # m[j].key.t THEN "HeteroMapKeys"
    ELSE IF \E i, j \in 1..Len(m) : m[i].val.t # m[j].val.t THEN "HeteroMapValues"
    ELSE ""

\* The values directly inside v, in the order they are serialized.
RECURSIVE Flatten(_)
Flatten(m) == IF m = <<>> THEN <<>> ELSE <<m[1].key, m[1].val>> \o Flatten(Tail(m))
Children(v) ==
    CASE v.t \in {"Tuple", "List"} -> v.elems
      [] v.t = "Variant" -> v.values
      [] v.t = "Map" -> Flatten(v.entries)
      [] OTHER -> <<>>

\* The map refusal documented for v: that of v itself, or of the first map
\* nested in v that has one.
RECURSIVE MapRefusal(_)
MapRefusal(v) ==
    IF v.t = "Map" /\ MapRefusalOf(v.entries) # "" THEN MapRefusalOf(v.entries)
    ELSE LET kids == Children(v)
             bad == {i \in 1..Len(kids) : MapRefusal(kids[i]) # ""}
         IN  IF bad = {} THEN ""
             ELSE MapRefusal(kids[CHOOSE i \in bad : \A j \in bad : i <= j])

C14_VariantSerialize ==
    (pc \in {"serialized", "failed"} /\ item.t = "Variant") =>
        IF item.vtag >= Len(item.arities) THEN wire = SerErr("InvalidVariantTag")
        ELSE IF Len(item.values) # item.arities[item.vtag + 1]
        THEN wire = SerErr("ArityValuesMismatch")
        ELSE value_serialize(Tuple(item.values)).tag = "Ok" =>
                wire = VOk(<<VARIANT>> \o ReferenceFraming(ByteArray(item.arities))
                           \o <<item.vtag>> \o value_serialize(Tuple(item.values)).bytes)

(***************************************************************************)
(* Variant encodings offered to the decoder.                               *)
(***************************************************************************)
\* The parts of a variant encoding: the arity vector in the RLP form the
\* decoder reads, the tag byte, and a tuple.
VariantArities(b) == rlp_decode_bytes(Tail(b))
VariantTag(b) == Head(VariantArities(b).rest)
VariantTuple(b) == value_try_deserialize(Tail(VariantArities(b).rest))

IsVariantEncoding(b) ==
    /\ b # <<>> /\ Head(b) = VARIANT
    /\ VariantArities(b).tag = "Ok"
    /\ VariantArities(b).rest # <<>>
    /\ VariantTuple(b).tag = "Ok"
    /\ VariantTuple(b).item.t = "Tuple"

\* C15 (as claimed): Value::try_deserialize on a variant encoding returns
\* Ok(Variant) only if tag < arities.len() and the tuple has arities[tag]
\* elements, Err(TooLargeTagInVariant) for every encoding with tag >=
\* arities.len(), and Err(TagDoesNotMatchTypeInVariant) for every encoding with
\* the tag in range and another element count.
C15_VariantDecodeChecks ==
    (pc = "try_deserialized" /\ FromOutside /\ IsVariantEncoding(input)) =>
        LET arities == VariantArities(input).bytes
            tg == VariantTag(input)
            count == Len(VariantTuple(input).item.elems)
        IN  /\ res.tag = "Ok" =>
                 /\ res.item.t = "Variant"
                 /\ tg < Len(arities)
                 /\ count = arities[tg + 1]
            /\ tg >= Len(arities) => res = Err(DeserErr("TooLargeTagInVariant"))
            /\ (tg < Len(arities) /\ count # arities[tg + 1]) =>
                 res = Err(DeserErr("TagDoesNotMatchTypeInVariant"))

\* C16 (as claimed): Value::serialize on StoreMap{cache, id} returns
\* Err(NonEmptyStoreMapCache) iff the cache is non-empty; for an empty cache it
\* returns 0xBF followed by the RLP encoding of id, and Value::deserialize of
\* that output returns StoreMap{cache: empty, id}, for every id from 0 up.
C16_StoreMapRoundTrip ==
    (pc \in {"serialized", "failed"} /\ item.t = "StoreMap") =>
        IF item.cache # <<>> THEN wire = SerErr("NonEmptyStoreMapCache")
        ELSE /\ wire.tag = "Ok"
             /\ Head(wire.bytes) = MAP_ID
             /\ RlpByteArrayOf(item.id, Tail(wire.bytes))
             /\ value_deserialize(wire.bytes) = OkItem(StoreMap(<<>>, item.id))

(***************************************************************************)
(* The ordering of section 3, written from its rules.                      *)
(***************************************************************************)
Reverse(o) == IF o = "Less" THEN "Greater" ELSE IF o = "Greater" THEN "Less" ELSE "Equal"

\* The ordinal table of section 3.
OrdinalTable ==
    <<"Integer", "Boolean", "Address", "Channel", "Contract", "Oracle", "Bytes", "Bits",
      "String", "Tuple", "Map", "List", "Variant", "OracleQuery", "ContractBytearray">>
TableOrdinal(v) == (CHOOSE i \in 1..Len(OrdinalTable) : OrdinalTable[i] = v.t) - 1

\* Natural order within a variant; composites compare their parts in order.
RECURSIVE NaturalCmp(_, _), LexCmp(_, _)
LexCmp(x, y) ==
    IF x = <<>> /\ y = <<>> THEN "Equal"
    ELSE IF x = <<>> THEN "Less"
    ELSE IF y = <<>> THEN "Greater"
    ELSE IF NaturalCmp(Head(x), Head(y)) # "Equal" THEN NaturalCmp(Head(x), Head(y))
    ELSE LexCmp(Tail(x), Tail(y))
NaturalCmp(a, b) ==
    IF a.t # b.t THEN int_cmp(TableOrdinal(a), TableOrdinal(b))
    ELSE CASE a.t \in {"Integer", "Bits"} -> int_cmp(a.n, b.n)
           [] a.t = "Boolean" -> int_cmp(IF a.b THEN 1 ELSE 0, IF b.b THEN 1 ELSE 0)
           [] a.t \in {"Tuple", "List"} -> LexCmp(a.elems, b.elems)
           [] a.t = "Map" -> LexCmp(Flatten(a.entries), Flatten(b.entries))
           [] a.t = "Variant" ->
                 IF a.arities # b.arities THEN bytes_cmp(a.arities, b.arities)
                 ELSE IF a.vtag # b.vtag THEN int_cmp(a.vtag, b.vtag)
                 ELSE LexCmp(a.values, b.values)
           [] OTHER -> bytes_cmp(a.bytes, b.bytes)

\* C17 (as claimed): Ord::cmp is a total order on the values other than
\* Typerep and StoreMap and is consistent with equality: cmp(a, b) = Equal iff
\* a = b, cmp(a, b) is the reverse of cmp(b, a), cmp is transitive; values of
\* different variants follow the ordinal table, values of one variant their
\* natural (leaf) or lexicographic (composite) order.
C17_TotalOrder ==
    (pc = "compared") =>
        LET a == item[1]
            b == item[2]
        IN  /\ res.ab = "Equal" <=> (a.t = b.t /\ a = b)
            /\ res.ab = Reverse(res.ba)
            /\ (res.ab # "Greater" /\ res.bc # "Greater") => res.ac # "Greater"
            /\ (res.ab = "Less" /\ res.bc # "Greater") => res.ac = "Less"
            /\ res.ab = NaturalCmp(a, b)

\* v is or contains a Map with a Typerep or a StoreMap among its keys.
RECURSIVE HasIncomparableKey(_)
HasIncomparableKey(v) ==
    \/ /\ v.t = "Map"
       /\ \E i \in 1..Len(v.entries) : v.entries[i].key.t \in {"Typerep", "StoreMap"}
    \/ \E i \in 1..Len(Children(v)) : HasIncomparableKey(Children(v)[i])

\* C18 (as claimed): no Map has a Typerep or a StoreMap as a key:
\* Value::deserialize never returns Ok with a Map, at any depth and of any
\* cardinality, that contains such a key, and Value::serialize never returns Ok
\* for a Map that contains such a key.
C18_NoIncomparableKeys ==
    /\ (pc \in {"deserialized", "try_deserialized"} /\ res.tag = "Ok") =>
          ~ HasIncomparableKey(res.item)
    /\ (pc \in {"serialized", "failed"} /\ HasIncomparableKey(item)) => wire.tag # "Ok"

\* C19 (as claimed): Type::serialize(t) returns Ok iff every Tuple and Variant
\* node of t has fewer than 256 element types, and otherwise
\* Err(TupleSizeLimitExceeded) or Err(VariantSizeLimitExceeded); whenever it
\* returns Ok(b), Type::deserialize(b ++ r) returns Ok((t, r)) for every r,
\* Bytes(Unsized) and Bytes(Sized(n)) included.
C19_TypeRoundTrip ==
    /\ (pc \in {"type_serialized", "type_failed"}) =>
          /\ wire.tag = "Ok" <=> WellFormedType(item)
          /\ ~ WellFormedType(item) =>
                wire \in {SerErr("TupleSizeLimitExceeded"), SerErr("VariantSizeLimitExceeded")}
    /\ (pc = "type_deserialized" /\ FromItem) => res = OkRest(item, tail)

(***************************************************************************)
(* Claims about the identifier codec.                                      *)
(***************************************************************************)
\* C20: Id::deserialize(b) returns Ok(id) iff b has exactly 33 bytes and b[0]
\* is in 1..=6, and then Id::serialize(id) = b and from_rlp_item(id.to_rlp_item())
\* = Ok(id) with to_rlp_item a byte array, never a list; it returns
\* Err(InvalidIdSize) for every other length whatever the first byte,
\* Err(InvalidIdTag) for a 33-byte input whose first byte is outside 1..=6, and
\* an RLP list is rejected with Err(InvalidRlp).
C20_IdCodec ==
    /\ (pc = "id_deserialized") =>
          /\ res.tag = "Ok" <=> (Len(input) = 33 /\ input[1] \in 1..6)
          /\ Len(input) # 33 => res = Err("InvalidIdSize")
          /\ (Len(input) = 33 /\ input[1] \notin 1..6) => res = Err("InvalidIdTag")
    /\ (pc = "id_reserialized") => reenc = input
    /\ (pc = "id_to_rlp") => tail = ByteArray(input)
    /\ (pc = "id_from_rlp") =>
          /\ tail.t = "List" => reenc = Err("InvalidRlp")
          /\ res.tag = "Ok" => reenc = OkItem(res.item)

\* A 33-byte buffer from outside with the last tag has been decoded, turned
\* into an RLP byte array and read back as the same identifier.
C20_Witness ==
    /\ pc = "id_from_rlp" /\ FromOutside
    /\ Len(input) = 33 /\ input[1] = 6
    /\ res.tag = "Ok" /\ tail.t = "ByteArray"
    /\ reenc = OkItem(res.item)

(***************************************************************************)
(* Maps decoded from the wire (value.rs, MAP arm of try_deserialize).      *)
(***************************************************************************)
\* Keys and values of the two-entry map encodings that are looked at.
WireKeys == {Integer(1), Integer(2), Tuple(<<Integer(1)>>), Tuple(<<Integer(2)>>)}
WireVals == {Boolean(FALSE), Boolean(TRUE)}

\* The encoding of a map that declares two entries: the MAP byte, the
\* cardinality (as an RLP byte array, or as the RLP list the decoder reads),
\* then key, value, key, value.
MapWire(sizeField, k1, v1, k2, v2) ==
    <<MAP>> \o sizeField
            \o value_serialize(k1).bytes \o value_serialize(v1).bytes
            \o value_serialize(k2).bytes \o value_serialize(v2).bytes

Binds(m, key, val) == \E i \in 1..Len(m) : m[i] = Entry(key, val)

\* C29 (as claimed): when Value::deserialize decodes a map encoding that
\* declares N entries whose keys are pairwise distinct values, of any key
\* variant, the resulting Map has exactly N entries and binds every key to the
\* value that followed it on the wire, whatever the order of the entries.
C29_MapKeepsAllEntries ==
    (pc = "deserialized" /\ FromOutside /\ res.tag = "Ok") =>
        \A k1 \in WireKeys, k2 \in WireKeys, v1 \in WireVals, v2 \in WireVals,
           sizeField \in {<<2>>, <<LIST_OFFSET + 1, 2>>} :
            (k1 # k2 /\ input = MapWire(sizeField, k1, v1, k2, v2)) =>
                /\ res.item.t = "Map"
                /\ Len(res.item.entries) = 2
                /\ Binds(res.item.entries, k1, v1)
                /\ Binds(res.item.entries, k2, v2)

\* C30 (as claimed): in every LeadingZerosInSize and SizeOverflow error that
\* RlpItem::deserialize returns, position is the zero-based offset in the
\* original input of the offending byte: a zero byte for LeadingZerosInSize,
\* and for SizeOverflow the tag byte of a byte array whose declared length is
\* the reported one; also for items nested in lists or following siblings.
C30_ErrorPositions ==
    (pc = "deserialized" /\ FromOutside /\ res.tag = "Err") =>
        /\ res.err.kind = "LeadingZerosInSize" =>
              /\ res.err.position < Len(input)
              /\ input[res.err.position + 1] = 0
        /\ res.err.kind = "SizeOverflow" =>
              /\ res.err.position < Len(input)
              /\ \/ /\ input[res.err.position + 1] \in
                          BYTE_ARRAY_OFFSET..BYTE_ARRAY_UNTAGGED_LIMIT
                    /\ input[res.err.position + 1] - BYTE_ARRAY_OFFSET = res.err.expected
                 \/ /\ input[res.err.position + 1] \in
                          BYTE_ARRAY_TAGGED_OFFSET..BYTE_ARRAY_LIMIT
                    /\ input[res.err.position + 1] - BYTE_ARRAY_UNTAGGED_LIMIT
                          = res.err.expected

\* C28 (as claimed): for all names f and g and every argument list on which
\* create_calldata(f, args) succeeds, the output is
\* Value::serialize(Tuple[Bytes(id4(f)), Tuple(args)]), and
\* decode_calldata(g, create_calldata(f, args)) returns Ok(args) if
\* id4(g) = id4(f) and Err(CalldataDecodeErr) otherwise; a decoded value that is
\* no 2-tuple [Bytes(id4(g)), Tuple(..)] always yields Err(CalldataDecodeErr).
C28_CalldataRoundTrip ==
    /\ (pc \in {"calldata_created", "calldata_decoded"} /\ FromItem) =>
          wire = value_serialize(Tuple(<<Bytes(fun_id(item.fun_name)), Tuple(item.args)>>))
    /\ (pc = "calldata_decoded" /\ FromItem) =>
          res = IF fun_id(tail) = fun_id(item.fun_name)
                THEN OkArgs(item.args)
                ELSE Err(DeserErr("CalldataDecodeErr"))
    /\ (pc = "calldata_decoded" /\ FromOutside /\ value_deserialize(input).tag = "Ok") =>
          LET v == value_deserialize(input).item
              shaped == /\ v.t = "Tuple" /\ Len(v.elems) = 2
                        /\ v.elems[1] = Bytes(fun_id(tail))
                        /\ v.elems[2].t = "Tuple"
          IN  IF shaped THEN res = OkArgs(v.elems[2].elems)
              ELSE res = Err(DeserErr("CalldataDecodeErr"))

(***************************************************************************)
(* The contract container.                                                 *)
(***************************************************************************)
\* The RLP item a buffer encodes.
ItemOf(bytes) == deserialize(bytes).item

IsVersion3(it) ==
    /\ it.t = "List" /\ Len(it.items) = 7
    /\ it.items[1] = ByteArray(<<CODE_TAG>>) /\ it.items[2] = ByteArray(<<VSN>>)

\* C25 (as claimed): Code::deserialize checks that the RLP list has exactly 7
\* items and that the tag equals 70, and returns Err(InvalidCode) for every
\* version 3 record whose type-info field is a non-empty list.
C25_TypeInfoRefused ==
    (pc = "code_deserialized" /\ FromOutside /\ deserialize(input).tag = "Ok") =>
        /\ (ItemOf(input).t # "List" \/ Len(ItemOf(input).items) # 7) => res.tag = "Err"
        /\ (/\ ItemOf(input).t = "List" /\ Len(ItemOf(input).items) = 7
            /\ ItemOf(input).items[1] # ByteArray(<<CODE_TAG>>)) => res.tag = "Err"
        /\ (/\ IsVersion3(ItemOf(input))
            /\ ItemOf(input).items[4].t = "List"
            /\ ItemOf(input).items[4].items # <<>>) => res = Err("InvalidCode")

\* The entry of a type-info list as claimed: one list of the five fields.
TypeInfoFrame(ti) ==
    List(<<ByteArray(ti.type_hash), ByteArray(ti.name),
           ByteArray(<<IF ti.payable THEN 1 ELSE 0>>),
           ByteArray(ti.arg_type), ByteArray(ti.out_type)>>)

\* C26 (as claimed): a contract record with a non-empty type_info list
\* round-trips: Code::serialize frames each entry as one RLP list of its five
\* fields [type_hash, name, payable, arg_type, out_type] placed directly inside
\* the type-info list, and Code::deserialize(Code::serialize(c)) returns Ok(c).
C26_TypeInfoRoundTrip ==
    /\ (pc \in {"code_serialized", "code_failed"} /\ FromItem /\ item.type_info # <<>>) =>
          /\ wire.tag = "Ok"
          /\ ItemOf(wire.bytes).items[4] =
                List([i \in 1..Len(item.type_info) |-> TypeInfoFrame(item.type_info[i])])
    /\ (pc = "code_deserialized" /\ FromItem /\ item.type_info # <<>>) => res = OkVal(item)

\* C27 (as claimed): for every byte sequence b on which Code::deserialize(b)
\* returns Ok(c), Code::serialize(c) equals b.
C27_CodeCanonical ==
    (pc = "code_reserialized" /\ FromOutside) => reenc = VOk(input)

(***************************************************************************)
(* The API string encoder.                                                 *)
(***************************************************************************)
\* The string in `input` was written by encode_data from the pair in `item`.
FromEncodeData == item # None /\ DOMAIN item = {"tp", "payload"}
\* The string in `input` was written by encode_id from the identifier in `item`.
FromEncodeId == item # None /\ DOMAIN item = {"idtag", "val"}

\* C21: for every KnownType t and payload p, encode_data(t, p) is
\* prefix(t) ++ "_" ++ enc_t(p ++ check(p)), the 2-character prefix is unique
\* to t (from_prefix(prefix(t)) = Some(t)), the separator is the third
\* character, and decode(encode_data(t, p)) returns Ok((t, p)) if t has no
\* fixed size or its fixed size (32, or 64 for Signature) equals len(p), and
\* Err(IncorrectSize) otherwise.
C21_EncodeDecode ==
    /\ \A t \in KnownTypes :
          /\ Len(prefix(t)) = 2 /\ from_prefix(prefix(t)) = Some(t)
          /\ byte_size(t) \in {None, Some(IF t = "Signature" THEN 64 ELSE 32)}
    /\ (pc \in {"encoded", "decoded"} /\ FromEncodeData) =>
          /\ SubSeq(wire, 1, 2) = prefix(item.tp)
          /\ wire[3] = Underscore
          /\ SubSeq(wire, 4, Len(wire)) =
                encoding_encode(encoding(item.tp), item.payload \o make_check(item.payload))
          /\ encoding_decode(encoding(item.tp), SubSeq(wire, 4, Len(wire))) =
                Some(item.payload \o make_check(item.payload))
    /\ (pc = "decoded" /\ FromEncodeData) =>
          res = IF byte_size(item.tp) = None \/ byte_size(item.tp) = Some(Len(item.payload))
                THEN OkDecoded(item.tp, item.payload)
                ELSE Err("IncorrectSize")

\* A 64-byte Signature has been decoded back, and so has been refused a
\* 63-byte one in another run; this is the first.
C21_Witness ==
    /\ pc = "decoded" /\ FromEncodeData
    /\ item.tp = "Signature" /\ Len(item.payload) = 64
    /\ res = OkDecoded("Signature", item.payload)

\* The bytes a string with a known prefix carries under its type's encoding,
\* or None.
CarriedBytes(str) ==
    IF split_prefix(str).tag # "Ok" THEN None
    ELSE IF from_prefix(split_prefix(str).pfx) = None THEN None
    ELSE encoding_decode(encoding(from_prefix(split_prefix(str).pfx).val),
                         split_prefix(str).payload)

\* C22 (as claimed): api_encoder::decode returns Err(InvalidCheck), a
\* structured error and never an abort, for every string with a known prefix
\* whose payload decodes under the type's base58/base64 encoding but whose
\* trailing 4 bytes are not the check of the bytes before them.
C22_InvalidCheckReturned ==
    (/\ pc = "decoded"
     /\ CarriedBytes(input) # None
     /\ Len(CarriedBytes(input).val) >= 4
     /\ SubSeq(CarriedBytes(input).val, Len(CarriedBytes(input).val) - 3,
               Len(CarriedBytes(input).val))
          # make_check(SubSeq(CarriedBytes(input).val, 1, Len(CarriedBytes(input).val) - 4)))
    => res = Err("InvalidCheck")

\* C23 (as claimed): for every string s that api_encoder::decode accepts as
\* (t, p) and every allow list, decode_id(allowed, s) returns
\* Err(InvalidPrefix) if t is not in allowed or t corresponds to no identifier
\* tag, and otherwise the Id with the tag of t (1<->ak, 2<->cm, 3<->pp, 4<->ok,
\* 5<->ck, 6<->ch); in particular decode_id(allowed, encode_id(id)) is Ok(id)
\* if the id's type is in allowed and Err(InvalidPrefix) if it is not.
C23_DecodeId ==
    /\ \A pair \in {<<1, <<97, 107>>>>, <<2, <<99, 109>>>>, <<3, <<112, 112>>>>,
                    <<4, <<111, 107>>>>, <<5, <<99, 107>>>>, <<6, <<99, 104>>>>} :
          /\ prefix(from_id_tag(pair[1])) = pair[2]
          /\ to_id_tag(from_prefix(pair[2]).val) = Some(pair[1])
    /\ (pc = "id_decoded" /\ decode(input).tag = "Ok") =>
          res = IF decode(input).tp \notin tail \/ to_id_tag(decode(input).tp) = None
                THEN Err("InvalidPrefix")
                ELSE OkVal(Id(to_id_tag(decode(input).tp).val, decode(input).bytes))
    /\ (pc = "id_decoded" /\ FromEncodeId) =>
          res = IF from_id_tag(item.idtag) \in tail THEN OkVal(item)
                ELSE Err("InvalidPrefix")

====
